---- MODULE Spec2Model ----
(***************************************************************************)
(* Bundlephobic: the bounded-concurrency request limiter                   *)
(* (src/lib/limiter.ts) and the size / npm-metadata cache coordinator      *)
(* built on it (src/extension.ts).                                         *)
(*                                                                         *)
(* JavaScript runs every callback to completion, so one action of this     *)
(* module is one callback or one promise continuation: the synchronous     *)
(* part of a call, the arrival of an HTTP response, the reaction of a      *)
(* .then/.catch/.finally handler, the resumption of an await.              *)
(***************************************************************************)
EXTENDS Integers, Sequences, FiniteSets, TLC

\* ------------------------------------------------------------- bounds
MaxUnits == 4        \* units submitted to a limiter in LimiterSpec
MaxLimit == 2        \* largest limit a limiter is created with
MaxCalls == 3        \* calls of fetchPackageSizes / getNpmLinks in Spec
MaxTicks == 2        \* advances of the wall clock in Spec
MaxSetting == 12     \* settings range over the numbers -MaxSetting .. MaxSetting
MaxChanges == 4      \* document-change events in DebounceSpec
MaxSlices == 8       \* advances of the clock in DebounceSpec
MaxBlocks == 3       \* top-level members of a document in ScanSpec
MaxPieces == 3       \* pieces of a version specifier in NormalizeSpec
MaxSubmits == 3      \* units submitted in ReconfigSpec
MaxGates == 2        \* limiters made, the first one included, in Spec
StartNow == 1000     \* Date.now() when the extension is loaded (positive)

VARIABLES
    gates,            \* every limiter made so far: <<[limit, activeCount, queue]>>
    units,            \* every task handed to a limiter, in submission order
    order,            \* unit ids in the order their run() was invoked
    scheduleRequest,  \* index in gates of the limiter requestJson uses
    maxConcurrent,    \* extension.ts: let maxConcurrent
    cache,            \* Map<string, CachedSizeInfo>
    inFlight,         \* Map<string, Promise<CachedSizeInfo>> (promise = unit id)
    npmMetaCache,     \* Map<string, { githubUrl? }>
    npmInFlight,      \* Map<string, Promise<{ githubUrl? }>> (promise = unit id)
    npmMetaErrorAt,   \* Map<string, number>
    now,              \* Date.now()
    calls,            \* every call of fetchPackageSizes / getNpmLinks so far
    debounceTimer,    \* <<>> (undefined) or <<[due, pending]>>: the timer last set
    changes,          \* the document-change events so far: [at, pkg]
    scans,            \* the times at which the debounce callback has run
    arg,              \* the argument a pure function is applied to
    ret,              \* <<its result>> once it has been applied, <<>> before
    document,         \* the editor's document: its version, the package on each line
    renders,          \* every call of renderDecorations so far
    decorations,      \* what editor.setDecorations was last given, and by which call
    responses         \* the size and link lookups that have resolved

vars == <<gates, units, order, scheduleRequest, maxConcurrent, cache, inFlight,
          npmMetaCache, npmInFlight, npmMetaErrorAt, now, calls, debounceTimer,
          changes, scans, arg, ret, document, renders, decorations, responses>>

\* The variables the limiter and the coordinator leave alone: those of the
\* debounce of document changes and those of the pure functions.
editorVars == <<document, renders, decorations, responses>>

restVars == <<debounceTimer, changes, scans, arg, ret, editorVars>>

coordVars == <<scheduleRequest, maxConcurrent, cache, inFlight, npmMetaCache,
               npmInFlight, npmMetaErrorAt, now, calls>>

\* ------------------------------------------------------------- values
Pending == [t |-> "pending"]
Undefined == [t |-> "undefined"]

\* What a rejected promise gives the code that awaits it: the error, thrown.
Rejected(err) == [rejected |-> err]
IsRejected(v) == "rejected" \in DOMAIN v

\* A JavaScript Map as a function whose domain is the set of keys present.
EmptyMap == [k \in {} |-> Undefined]
MapSet(m, k, v) == [x \in (DOMAIN m) \cup {k} |-> IF x = k THEN v ELSE m[x]]
MapDelete(m, k) == [x \in (DOMAIN m) \ {k} |-> m[x]]
MapHas(m, k) == k \in DOMAIN m

\* ------------------------------------------------------------- limiter
makeLimiter(limit) == [limit |-> limit, activeCount |-> 0, queue |-> <<>>]

\* runNext up to the invocation of task.run(): the gate afterwards and the task
\* whose run() was invoked (0 when runNext returned early).
runNextNoLimit(gate) ==
    IF gate.queue = <<>> THEN [gate |-> gate, task |-> 0]
    ELSE [gate |-> [gate EXCEPT !.queue = Tail(@), !.activeCount = @ + 1],
          task |-> Head(gate.queue)]

runNextLifo(gate) ==
    IF gate.activeCount >= gate.limit THEN [gate |-> gate, task |-> 0]
    ELSE IF gate.queue = <<>> THEN [gate |-> gate, task |-> 0]
    ELSE [gate |-> [gate EXCEPT !.queue = SubSeq(@, 1, Len(@) - 1),
                                !.activeCount = @ + 1],
          task |-> gate.queue[Len(gate.queue)]]

runNext(gate) ==
    IF gate.activeCount >= gate.limit THEN [gate |-> gate, task |-> 0]
    ELSE IF gate.queue = <<>> THEN [gate |-> gate, task |-> 0]
    ELSE [gate |-> [gate EXCEPT !.queue = Tail(@), !.activeCount = @ + 1],
          task |-> Head(gate.queue)]

\* runNext() on gate g of the state <<gs, us, ord>>: task.run() is invoked
\* synchronously, so the task is running when runNext returns.
RunNextOn(gs, us, ord, g) ==
    LET r == runNext(gs[g]) IN
    [gates |-> [gs EXCEPT ![g] = r.gate],
     units |-> IF r.task = 0 THEN us ELSE [us EXCEPT ![r.task].st = "running"],
     order |-> IF r.task = 0 THEN ord ELSE Append(ord, r.task)]

\* A task as the limiter sees it. st: queued -> running (run() invoked, its
\* promise pending) -> settled (its promise settled with outcome) -> delivered
\* (task.resolve / task.reject called: result) -> released (.finally ran).
\* co and pval belong to the coordinator's async wrapper around the request:
\* co is await (suspended at `await requestJson`), p0 (the wrapper returned
\* pval, its .finally handler has not run yet) or p1 (the .finally handler ran:
\* the promise stored in the in-flight map is resolved with pval). failedAt is
\* the time at which a metadata fetch was found to have failed, 0 otherwise.
NewUnit(g, kind, key) ==
    [gate |-> g, kind |-> kind, key |-> key, st |-> "queued",
     outcome |-> Pending, result |-> Pending,
     co |-> IF kind = "plain" THEN "none" ELSE "await", pval |-> Pending,
     failedAt |-> 0]

\* The function makeLimiter returns: queue.push(task); runNext().
Limiter(gs, us, ord, g, kind, key) ==
    LET id == Len(us) + 1 IN
    RunNextOn([gs EXCEPT ![g].queue = Append(@, id)],
              Append(us, NewUnit(g, kind, key)), ord, g)

UnitIds == 1..Len(units)

\* A caller submits a unit of work to a limiter.
LimiterCall ==
    /\ Len(units) < MaxUnits
    /\ \E g \in 1..Len(gates) :
        LET s == Limiter(gates, units, order, g, "plain", <<>>) IN
        /\ gates' = s.gates
        /\ units' = s.units
        /\ order' = s.order
    /\ UNCHANGED coordVars
    /\ UNCHANGED restVars

\* The promise of a running unit settles: it resolves with the unit's own
\* value or rejects (or run() threw) with the unit's own error.
UnitSettlesOne(u, ok) ==
    /\ u \in UnitIds
    /\ units[u].kind = "plain"
    /\ units[u].st = "running"
    /\ units' = [units EXCEPT ![u].st = "settled",
                              ![u].outcome = [t |-> IF ok THEN "value" ELSE "error",
                                              v |-> u]]
    /\ UNCHANGED <<gates, order>>
    /\ UNCHANGED coordVars
    /\ UNCHANGED restVars

UnitSettles == \E u \in UnitIds, ok \in BOOLEAN : UnitSettlesOne(u, ok)

\* .then((value) => task.resolve(value)).catch((err) => task.reject(err))
SettleTaskSwallow(us, u) ==
    [us EXCEPT ![u].st = "delivered",
               ![u].result = IF us[u].outcome.t = "error" THEN Undefined
                             ELSE us[u].outcome]

SettleTask(us, u) ==
    [us EXCEPT ![u].st = "delivered", ![u].result = us[u].outcome]

TaskSettleOne(u) ==
    /\ u \in UnitIds
    /\ units[u].st = "settled"
    /\ units' = SettleTask(units, u)
    /\ UNCHANGED <<gates, order>>
    /\ UNCHANGED coordVars
    /\ UNCHANGED restVars

TaskSettle == \E u \in UnitIds : TaskSettleOne(u)

\* .finally(() => { activeCount--; runNext() })
FinallyNoRunNext(gs, us, ord, u) ==
    [gates |-> [gs EXCEPT ![us[u].gate].activeCount = @ - 1],
     units |-> [us EXCEPT ![u].st = "released"],
     order |-> ord]

FinallyOnlyOnSuccess(gs, us, ord, u) ==
    IF us[u].outcome.t = "error"
    THEN [gates |-> gs, units |-> [us EXCEPT ![u].st = "released"], order |-> ord]
    ELSE RunNextOn([gs EXCEPT ![us[u].gate].activeCount = @ - 1],
                   [us EXCEPT ![u].st = "released"], ord, us[u].gate)

Finally(gs, us, ord, u) ==
    RunNextOn([gs EXCEPT ![us[u].gate].activeCount = @ - 1],
              [us EXCEPT ![u].st = "released"], ord, us[u].gate)

\* The microtask queue is first in, first out. After task.resolve(value) the
\* continuation of the request's async wrapper is queued ahead of the limiter's
\* pass through .catch, so that wrapper's next steps run before .finally: for a
\* size request its body and its own .finally (co = p1), for a metadata request,
\* which awaits once more inside fetchNpmMetadata, its body (co = p0).
\* After task.reject(err), which .catch calls one turn later than .then would
\* have called task.resolve, only the first continuation of the wrapper comes
\* before .finally: the body of a size request (co = p0), the catch block of
\* fetchNpmMetadata for a metadata request (co still await).
FinallyTurn(u) ==
    CASE units[u].kind = "size" ->
            units[u].co = (IF units[u].outcome.t = "error" THEN "p0" ELSE "p1")
      [] units[u].kind = "meta" ->
            units[u].outcome.t = "error" \/ units[u].co = "p0"
      [] OTHER -> TRUE

TaskFinallyOne(u) ==
    /\ u \in UnitIds
    /\ units[u].st = "delivered"
    /\ FinallyTurn(u)
    /\ LET s == Finally(gates, units, order, u) IN
       /\ gates' = s.gates
       /\ units' = s.units
       /\ order' = s.order
    /\ UNCHANGED coordVars
    /\ UNCHANGED restVars

TaskFinally == \E u \in UnitIds : TaskFinallyOne(u)

LimiterInit ==
    /\ \E limit \in 1..MaxLimit : gates = <<makeLimiter(limit)>>
    /\ units = <<>>
    /\ order = <<>>
    /\ scheduleRequest = 1
    /\ maxConcurrent = 2
    /\ cache = EmptyMap
    /\ inFlight = EmptyMap
    /\ npmMetaCache = EmptyMap
    /\ npmInFlight = EmptyMap
    /\ npmMetaErrorAt = EmptyMap
    /\ now = StartNow
    /\ calls = <<>>
    /\ debounceTimer = <<>>
    /\ changes = <<>>
    /\ scans = <<>>
    /\ document = [version |-> 1, lines |-> <<>>]
    /\ renders = <<>>
    /\ decorations = [by |-> 0, decos |-> {}]
    /\ responses = {}
    /\ arg = <<>>
    /\ ret = <<>>

LimiterNext ==
    \/ LimiterCall
    \/ UnitSettles
    \/ TaskSettle
    \/ TaskFinally

LimiterSpec == LimiterInit /\ [][LimiterNext]_vars

\* Every started unit eventually settles, and the promise reactions the
\* settlement queues are run.
LimiterLiveSpec ==
    /\ LimiterSpec
    /\ \A u \in 1..MaxUnits :
        /\ WF_vars(\E ok \in BOOLEAN : UnitSettlesOne(u, ok))
        /\ WF_vars(TaskSettleOne(u))
        /\ WF_vars(TaskFinallyOne(u))

\* ------------------------------------------------------------- JSON values
Num(n) == [t |-> "number", n |-> n]
Str(s) == [t |-> "string", s |-> s]     \* s: the string as a sequence of pieces

\* What requestJson can resolve with for the size endpoint: undefined (status
\* >= 400, unparsable body, connection error) or the parsed body.
SizeBodies ==
    { Undefined,
      [t |-> "object", size |-> Num(2048), gzip |-> Num(900),
       version |-> Str(<<"1.0.1">>), dependencyCount |-> Num(3)],
      [t |-> "object", size |-> Num(512), gzip |-> Num(256),
       version |-> Undefined, dependencyCount |-> Undefined],
      [t |-> "object", size |-> Str(<<"2048">>), gzip |-> Num(900),
       version |-> Undefined, dependencyCount |-> Undefined],
      [t |-> "object", size |-> Num(2048), gzip |-> Undefined,
       version |-> Str(<<"1.0.1">>), dependencyCount |-> Undefined] }

\* The same for the registry endpoint.
MetaBodies ==
    { Undefined,
      [t |-> "object",
       repository |-> Str(<<"git+", "https://github.com/o/r", ".git">>),
       homepage |-> Undefined],
      [t |-> "object",
       repository |-> [t |-> "object", url |-> Undefined],
       homepage |-> Undefined] }

PkgSpecifiers == {"react@18.3.1", "@x/y@^1.2.3"}
Names == {"@x/y"}
Pinneds == {"18.3.1"}

\* maxConcurrentRequests as the configuration returns it, among the values for
\* which the limit is an integer: the limiters of Spec have integer limits.
Settings == {Undefined, Num(0), Num(-1), Num(1), Num(2)}

encodeURIComponent(s) == IF s = "@x/y" THEN "%40x%2Fy" ELSE s

\* ------------------------------------------------------------- formatBytes
\* (num / den).toFixed(1) for integers num >= 0, den > 0: the nearest tenth,
\* the larger one on a tie.
toFixed1(num, den) ==
    LET n == (num * 20 + den) \div (2 * den) IN
    ToString(n \div 10) \o "." \o ToString(n % 10)

\* Number.isFinite(v): neither NaN nor an infinity.
isFinite(v) == v.t = "number"

\* A formatter whose units are powers of 1000.
formatBytesDecimalUnits(bytes) ==
    IF ~isFinite(bytes) \/ bytes.n < 0 THEN "n/e"
    ELSE IF bytes.n < 1000 THEN ToString(bytes.n) \o "B"
    ELSE IF bytes.n < 1000 * 1000 THEN toFixed1(bytes.n, 1000) \o "kB"
    ELSE toFixed1(bytes.n, 1000 * 1000) \o "MB"

formatBytes(bytes) ==
    IF ~isFinite(bytes) \/ bytes.n < 0 THEN "n/e"
    ELSE IF bytes.n < 1024 THEN ToString(bytes.n) \o "B"
    ELSE IF bytes.n < 1024 * 1024 THEN toFixed1(bytes.n, 1024) \o "kB"
    ELSE toFixed1(bytes.n, 1024 * 1024) \o "MB"

\* ------------------------------------------------------------- size path
\* The CachedSizeInfo the body of fetchPackageSizes derives from the response:
\* the miss { text: 'error' } or the value.
sizeInfo(json) ==
    IF json.t # "object" \/ json.size.t # "number" \/ json.gzip.t # "number"
    THEN [text |-> "error"]
    ELSE [text |-> formatBytes(json.size) \o " (" \o formatBytes(json.gzip) \o ")",
          version |-> json.version, size |-> json.size, gzip |-> json.gzip,
          dependencyCount |-> json.dependencyCount]

\* Which return of fetchPackageSizes a call takes.
sizeLookupNoInFlight(c, inf, pkgSpecifier) ==
    IF MapHas(c, pkgSpecifier) THEN "cache" ELSE "fetch"

sizeLookupRetriesError(c, inf, pkgSpecifier) ==
    IF MapHas(c, pkgSpecifier) /\ c[pkgSpecifier].text # "error" THEN "cache"
    ELSE IF MapHas(inf, pkgSpecifier) THEN "inFlight"
    ELSE "fetch"

sizeLookup(c, inf, pkgSpecifier) ==
    IF MapHas(c, pkgSpecifier) THEN "cache"
    ELSE IF MapHas(inf, pkgSpecifier) THEN "inFlight"
    ELSE "fetch"

\* A call of fetchPackageSizes or getNpmLinks. awaiting: the promise (unit id)
\* whose settlement resumes it, 0 when it returned at once. at, seen (the
\* entry of the permanent cache under the key, if any), concurrentWith and
\* failedAt record what held when the call was made.
NewCall(fn, key, awaiting, issuer, result, failedAt) ==
    [fn |-> fn, key |-> key, awaiting |-> awaiting, issuer |-> issuer,
     result |-> result, at |-> IF fn = "getNpmLinks" THEN now ELSE 0,
     failedAt |-> failedAt,
     seen |-> IF fn = "getNpmLinks"
              THEN {npmMetaCache[k] : k \in {key} \cap DOMAIN npmMetaCache}
              ELSE {cache[k] : k \in {key[1]} \cap DOMAIN cache},
     concurrentWith |-> {c \in 1..Len(calls) :
                            /\ calls[c].fn = fn
                            /\ calls[c].key = key
                            /\ calls[c].result = Pending}]

\* requestJson(url): scheduleRequest(() => new Promise(...https.get...)).
requestJson(kind, key) ==
    Limiter(gates, units, order, scheduleRequest, kind, key)

\* A continuation is waiting to run. The event loop takes its next event (a
\* response, a timer, an editor or configuration event) only when none is, and
\* fetchPackageSizes and getNpmLinks are called from the handlers of editor
\* events and timers (renderDecorations, provideInlayHints) and from the
\* continuations that end them, after those of the response that resumed them.
MicrotaskPending ==
    \/ \E u \in UnitIds :
        \/ units[u].st \in {"settled", "delivered"}
        \/ units[u].co = "await" /\ units[u].result # Pending
        \/ units[u].co = "p0"
    \/ \E c \in 1..Len(calls) :
        /\ calls[c].result = Pending
        /\ units[calls[c].awaiting].co = "p1"

fetchPackageSizes ==
    /\ Len(calls) < MaxCalls
    /\ ~MicrotaskPending
    /\ \E pkgSpecifier \in PkgSpecifiers :
        LET how == sizeLookup(cache, inFlight, pkgSpecifier)
            key == <<pkgSpecifier>>
        IN
        CASE how = "cache" ->
                /\ calls' = Append(calls, NewCall("fetchPackageSizes", key, 0, FALSE,
                                                  cache[pkgSpecifier], 0))
                /\ UNCHANGED <<gates, units, order, inFlight>>
          [] how = "inFlight" ->
                /\ calls' = Append(calls, NewCall("fetchPackageSizes", key,
                                                  inFlight[pkgSpecifier], FALSE,
                                                  Pending, 0))
                /\ UNCHANGED <<gates, units, order, inFlight>>
          [] how = "fetch" ->
                LET s == requestJson("size", key)
                    id == Len(units) + 1
                IN
                /\ gates' = s.gates
                /\ units' = s.units
                /\ order' = s.order
                /\ inFlight' = MapSet(inFlight, pkgSpecifier, id)
                /\ calls' = Append(calls, NewCall("fetchPackageSizes", key, id, TRUE,
                                                  Pending, 0))
    /\ UNCHANGED <<scheduleRequest, maxConcurrent, cache, npmMetaCache, npmInFlight,
                   npmMetaErrorAt, now>>
    /\ UNCHANGED restVars

\* The response of a request that was sent arrives: the promise the unit
\* returned resolves (it never rejects: every handler calls resolve).
HttpResponse ==
    /\ ~MicrotaskPending
    /\ \E u \in UnitIds :
        /\ units[u].kind # "plain"
        /\ units[u].st = "running"
        /\ \E body \in IF units[u].kind = "size" THEN SizeBodies ELSE MetaBodies :
            units' = [units EXCEPT ![u].st = "settled",
                                   ![u].outcome = [t |-> "value", v |-> body]]
    /\ UNCHANGED <<gates, order>>
    /\ UNCHANGED coordVars
    /\ UNCHANGED restVars

\* The async body of fetchPackageSizes after `await requestJson(apiUrl)`, up
\* to its return: cache.set(pkgSpecifier, miss | value).
sizeBodyErrorsUncached(c, inf, pkgSpecifier, json) ==
    [cache |-> IF sizeInfo(json) = [text |-> "error"] THEN c
               ELSE MapSet(c, pkgSpecifier, sizeInfo(json)),
     inFlight |-> inf,
     pval |-> sizeInfo(json)]

sizeBodyDeletesFirst(c, inf, pkgSpecifier, json) ==
    [cache |-> c, inFlight |-> MapDelete(inf, pkgSpecifier), pval |-> sizeInfo(json)]

sizeBody(c, inf, pkgSpecifier, json) ==
    [cache |-> MapSet(c, pkgSpecifier, sizeInfo(json)),
     inFlight |-> inf,
     pval |-> sizeInfo(json)]

\* `await requestJson(apiUrl)` in that body: a rejection of requestJson is
\* thrown out of the body, which has no try block, and rejects its promise.
sizeAwait(c, inf, pkgSpecifier, settled) ==
    IF settled.t = "error"
    THEN [cache |-> c, inFlight |-> inf, pval |-> Rejected(settled.v)]
    ELSE sizeBody(c, inf, pkgSpecifier, settled.v)

SizeBody ==
    /\ \E u \in UnitIds :
        /\ units[u].kind = "size"
        /\ units[u].co = "await"
        /\ units[u].result # Pending
        /\ LET r == sizeAwait(cache, inFlight, units[u].key[1], units[u].result) IN
           /\ cache' = r.cache
           /\ inFlight' = r.inFlight
           /\ units' = [units EXCEPT ![u].co = "p0", ![u].pval = r.pval]
    /\ UNCHANGED <<gates, order, scheduleRequest, maxConcurrent, npmMetaCache,
                   npmInFlight, npmMetaErrorAt, now, calls>>
    /\ UNCHANGED restVars

\* .finally(() => { inFlight.delete(pkgSpecifier) })
SizeFinally ==
    /\ \E u \in UnitIds :
        /\ units[u].kind = "size"
        /\ units[u].co = "p0"
        /\ units[u].outcome.t = "error" => units[u].st = "released"
        /\ inFlight' = MapDelete(inFlight, units[u].key[1])
        /\ units' = [units EXCEPT ![u].co = "p1"]
    /\ UNCHANGED <<gates, order, scheduleRequest, maxConcurrent, cache, npmMetaCache,
                   npmInFlight, npmMetaErrorAt, now, calls>>
    /\ UNCHANGED restVars

\* ------------------------------------------------------------- metadata path
backoffMs == 5 * 60 * 1000

npmUrl(name, pinned) ==
    <<"https://www.npmjs.com/package/", encodeURIComponent(name), "/v/",
      encodeURIComponent(pinned)>>

Truthy(v) ==
    /\ v.t \notin {"undefined", "null", "nan"}
    /\ ~(v.t = "string" /\ v.s = <<>>)
    /\ ~(v.t = "number" /\ v.n = 0)

\* replace(/^git\+/, '') and replace(/\.git$/, '')
stripGitPlus(s) == IF s # <<>> /\ Head(s) = "git+" THEN Tail(s) ELSE s
stripDotGit(s) == IF s # <<>> /\ s[Len(s)] = ".git" THEN SubSeq(s, 1, Len(s) - 1) ELSE s

\* What the async wrapper of getNpmLinks makes of the metadata: whether the
\* fetch failed (!meta) and the githubUrl it returns.
npmMetadataResultGuess(meta) ==
    IF meta.t = "undefined"
    THEN [failed |-> TRUE, githubUrl |-> Str(<<"https://github.com/">>)]
    ELSE LET repo == IF meta.repository.t = "string" THEN meta.repository
                     ELSE IF meta.repository.t = "object" THEN meta.repository.url
                     ELSE Undefined
             repoOrHome == IF Truthy(repo) THEN repo ELSE meta.homepage
         IN [failed |-> FALSE,
             githubUrl |-> IF repoOrHome.t = "undefined" THEN Undefined
                           ELSE Str(stripDotGit(stripGitPlus(repoOrHome.s)))]

npmMetadataResult(meta) ==
    IF meta.t = "undefined" THEN [failed |-> TRUE, githubUrl |-> Undefined]
    ELSE LET repo == IF meta.repository.t = "string" THEN meta.repository
                     ELSE IF meta.repository.t = "object" THEN meta.repository.url
                     ELSE Undefined
             repoOrHome == IF Truthy(repo) THEN repo ELSE meta.homepage
         IN [failed |-> FALSE,
             githubUrl |-> IF repoOrHome.t = "undefined" THEN Undefined
                           ELSE Str(stripDotGit(stripGitPlus(repoOrHome.s)))]

\* Which return of getNpmLinks a call takes at time t.
npmLookupBackoffFirst(mc, errAt, inf, key, t) ==
    IF MapHas(errAt, key) /\ errAt[key] # 0 /\ t - errAt[key] < backoffMs
    THEN "backoff"
    ELSE IF MapHas(inf, key) THEN "inFlight"
    ELSE "fetch"

\* A lookup that never joins a fetch in progress.
npmLookupNoInFlight(mc, errAt, inf, key, t) ==
    IF MapHas(mc, key) THEN "cache"
    ELSE IF MapHas(errAt, key) /\ errAt[key] # 0 /\ t - errAt[key] < backoffMs
    THEN "backoff"
    ELSE "fetch"

npmLookup(mc, errAt, inf, key, t) ==
    IF MapHas(mc, key) THEN "cache"
    ELSE IF MapHas(errAt, key) /\ errAt[key] # 0 /\ t - errAt[key] < backoffMs
    THEN "backoff"
    ELSE IF MapHas(inf, key) THEN "inFlight"
    ELSE "fetch"

\* The time at which a metadata fetch for key was found to have failed, 0 when
\* none has.
FailedAt(key) ==
    LET ts == {units[u].failedAt : u \in {x \in UnitIds : units[x].kind = "meta"
                                                          /\ units[x].key = key}}
    IN IF ts = {} THEN 0 ELSE CHOOSE t \in ts : \A o \in ts : o <= t

getNpmLinks ==
    /\ Len(calls) < MaxCalls
    /\ ~MicrotaskPending
    /\ \E name \in Names, pinned \in Pinneds :
        LET key == <<name, pinned>>
            how == npmLookup(npmMetaCache, npmMetaErrorAt, npmInFlight, key, now)
        IN
        CASE how = "cache" ->
                /\ calls' = Append(calls, NewCall("getNpmLinks", key, 0, FALSE,
                        [npmUrl |-> npmUrl(name, pinned),
                         githubUrl |-> npmMetaCache[key].githubUrl], FailedAt(key)))
                /\ UNCHANGED <<gates, units, order, npmInFlight>>
          [] how = "backoff" ->
                /\ calls' = Append(calls, NewCall("getNpmLinks", key, 0, FALSE,
                        [npmUrl |-> npmUrl(name, pinned)], FailedAt(key)))
                /\ UNCHANGED <<gates, units, order, npmInFlight>>
          [] how = "inFlight" ->
                /\ calls' = Append(calls, NewCall("getNpmLinks", key, npmInFlight[key],
                                                  FALSE, Pending, FailedAt(key)))
                /\ UNCHANGED <<gates, units, order, npmInFlight>>
          [] how = "fetch" ->
                LET s == requestJson("meta", key)
                    id == Len(units) + 1
                IN
                /\ gates' = s.gates
                /\ units' = s.units
                /\ order' = s.order
                /\ npmInFlight' = MapSet(npmInFlight, key, id)
                /\ calls' = Append(calls, NewCall("getNpmLinks", key, id, TRUE,
                                                  Pending, FailedAt(key)))
    /\ UNCHANGED <<scheduleRequest, maxConcurrent, cache, inFlight, npmMetaCache,
                   npmMetaErrorAt, now>>
    /\ UNCHANGED restVars

\* The async wrapper of getNpmLinks after `await fetchNpmMetadata(name, pinned)`,
\* up to its return.
\* fetchNpmMetadata: try { return await requestJson(url) } catch { return undefined }
fetchNpmMetadata(settled) == IF settled.t = "error" THEN Undefined ELSE settled.v

npmBody(errAt, key, meta, t) ==
    LET r == npmMetadataResult(meta) IN
    [npmMetaErrorAt |-> IF r.failed THEN MapSet(errAt, key, t) ELSE MapDelete(errAt, key),
     failedAt |-> IF r.failed THEN t ELSE 0,
     pval |-> [githubUrl |-> r.githubUrl]]

NpmBody ==
    /\ \E u \in UnitIds :
        /\ units[u].kind = "meta"
        /\ units[u].co = "await"
        /\ units[u].result # Pending
        /\ units[u].result.t = "error" => units[u].st = "released"
        /\ LET r == npmBody(npmMetaErrorAt, units[u].key,
                            fetchNpmMetadata(units[u].result), now) IN
           /\ npmMetaErrorAt' = r.npmMetaErrorAt
           /\ units' = [units EXCEPT ![u].co = "p0", ![u].pval = r.pval,
                                     ![u].failedAt = r.failedAt]
    /\ UNCHANGED <<gates, order, scheduleRequest, maxConcurrent, cache, inFlight,
                   npmMetaCache, npmInFlight, now, calls>>
    /\ UNCHANGED restVars

\* .finally(() => { npmInFlight.delete(key) })
NpmFinally ==
    /\ \E u \in UnitIds :
        /\ units[u].kind = "meta"
        /\ units[u].co = "p0"
        /\ units[u].st = "released"
        /\ npmInFlight' = MapDelete(npmInFlight, units[u].key)
        /\ units' = [units EXCEPT ![u].co = "p1"]
    /\ UNCHANGED <<gates, order, scheduleRequest, maxConcurrent, cache, inFlight,
                   npmMetaCache, npmMetaErrorAt, now, calls>>
    /\ UNCHANGED restVars

\* A call suspended on a promise of the in-flight maps resumes once that
\* promise is resolved, the calls waiting on one promise in the order in which
\* they began to wait. A getNpmLinks call that issued the fetch then does
\* npmMetaCache.set(key, { githubUrl }) before it returns.
Resume ==
    /\ \E c \in 1..Len(calls) :
        /\ calls[c].result = Pending
        /\ units[calls[c].awaiting].co = "p1"
        /\ units[calls[c].awaiting].st = "released"
        /\ \A d \in 1..(c - 1) :
            calls[d].awaiting = calls[c].awaiting => calls[d].result # Pending
        /\ LET v == units[calls[c].awaiting].pval IN
           IF calls[c].fn = "getNpmLinks"
           THEN /\ calls' = [calls EXCEPT ![c].result =
                        [npmUrl |-> npmUrl(calls[c].key[1], calls[c].key[2]),
                         githubUrl |-> v.githubUrl]]
                /\ npmMetaCache' = IF calls[c].issuer
                                   THEN MapSet(npmMetaCache, calls[c].key,
                                               [githubUrl |-> v.githubUrl])
                                   ELSE npmMetaCache
           ELSE /\ calls' = [calls EXCEPT ![c].result = v]
                /\ UNCHANGED npmMetaCache
    /\ UNCHANGED <<gates, units, order, scheduleRequest, maxConcurrent, cache,
                   inFlight, npmInFlight, npmMetaErrorAt, now>>
    /\ UNCHANGED restVars

\* ------------------------------------------------------------- clock, config
\* The wall clock advances between two events, by half the backoff window.
\* Date.now() is read to stamp a failed metadata fetch and to compare with such
\* a stamp, so the clock is left at its start until a stamp exists.
ClockAdvances == (now - StartNow) \div (backoffMs \div 2)

Tick ==
    /\ ~MicrotaskPending
    /\ ClockAdvances < MaxTicks
    /\ DOMAIN npmMetaErrorAt # {}
    /\ now' = now + (backoffMs \div 2)
    /\ UNCHANGED <<gates, units, order, scheduleRequest, maxConcurrent, cache,
                   inFlight, npmMetaCache, npmInFlight, npmMetaErrorAt, calls>>
    /\ UNCHANGED restVars

\* The numbers that are not integers, told from the integers Num(n) by t: the
\* fraction n / d (d > 1, n not a multiple of d) and NaN.
Frac(n, d) == [t |-> "fraction", n |-> n, d |-> d]
NaN == [t |-> "nan"]

\* v || 2
OrTwo(v) ==
    IF \/ v.t \in {"undefined", "nan"}
       \/ v.t = "number" /\ v.n = 0
       \/ v.t = "string" /\ v.s = <<>>
    THEN Num(2) ELSE v

\* Number(v) for a number or a non-empty string.
Number(v) ==
    IF v.t # "string" THEN v
    ELSE IF v.s = <<"3">> THEN Num(3)
    ELSE IF v.s = <<"1.5">> THEN Frac(3, 2)
    ELSE NaN

\* Math.max(1, x)
MathMax1(x) ==
    CASE x.t = "nan" -> NaN
      [] x.t = "fraction" -> IF x.n < x.d THEN Num(1) ELSE x
      [] OTHER -> IF x.n < 1 THEN Num(1) ELSE x

\* Math.max(1, Number(cfg.get('maxConcurrentRequests') || 2))
nextMaxConcurrent(setting) == MathMax1(Number(OrTwo(setting)))

\* if (next !== maxConcurrent) { maxConcurrent = next;
\*                                scheduleRequest = makeLimiter(maxConcurrent) }
\* The limiter scheduleRequest held before stays with the promise reactions of
\* the units it was handed.
reconfigureInPlace(gs, sched, mc, next) ==
    IF next # mc
    THEN [maxConcurrent |-> next,
          gates |-> [gs EXCEPT ![sched].limit = next],
          scheduleRequest |-> sched]
    ELSE [maxConcurrent |-> mc, gates |-> gs, scheduleRequest |-> sched]

reconfigure(gs, sched, mc, next) ==
    IF next # mc
    THEN [maxConcurrent |-> next,
          gates |-> Append(gs, makeLimiter(next)),
          scheduleRequest |-> Len(gs) + 1]
    ELSE [maxConcurrent |-> mc, gates |-> gs, scheduleRequest |-> sched]

applyConfig ==
    /\ ~MicrotaskPending
    /\ Len(gates) < MaxGates
    /\ \E setting \in Settings :
        LET r == reconfigure(gates, scheduleRequest, maxConcurrent,
                             nextMaxConcurrent(setting).n) IN
        /\ maxConcurrent' = r.maxConcurrent
        /\ gates' = r.gates
        /\ scheduleRequest' = r.scheduleRequest
    /\ UNCHANGED <<units, order, cache, inFlight, npmMetaCache, npmInFlight,
                   npmMetaErrorAt, now, calls>>
    /\ UNCHANGED restVars

\* ------------------------------------------------------------- specification
\* The module has been loaded: its top-level declarations have run.
Loaded ==
    /\ maxConcurrent = 2
    /\ gates = <<makeLimiter(maxConcurrent)>>
    /\ scheduleRequest = 1
    /\ units = <<>>
    /\ order = <<>>
    /\ cache = EmptyMap
    /\ inFlight = EmptyMap
    /\ npmMetaCache = EmptyMap
    /\ npmInFlight = EmptyMap
    /\ npmMetaErrorAt = EmptyMap
    /\ now = StartNow
    /\ calls = <<>>
    /\ debounceTimer = <<>>
    /\ changes = <<>>
    /\ scans = <<>>
    /\ document = [version |-> 1, lines |-> <<>>]
    /\ renders = <<>>
    /\ decorations = [by |-> 0, decos |-> {}]
    /\ responses = {}

Init ==
    /\ Loaded
    /\ arg = <<>>
    /\ ret = <<>>

Next ==
    \/ fetchPackageSizes
    \/ getNpmLinks
    \/ HttpResponse
    \/ TaskSettle
    \/ TaskFinally
    \/ SizeBody
    \/ SizeFinally
    \/ NpmBody
    \/ NpmFinally
    \/ Resume
    \/ Tick
    \/ applyConfig

Spec == Init /\ [][Next]_vars

\* ------------------------------------------------------------- the setting
\* The setting as a user can write it: absent, any number, a string.
AnySettings ==
    {Undefined, NaN, Str(<<>>), Str(<<"abc">>), Str(<<"3">>), Str(<<"1.5">>)}
        \cup {Num(n) : n \in -MaxSetting..MaxSetting}
        \cup {Frac(n, d) : n \in {k \in -MaxSetting..MaxSetting : k % 2 = 1}, d \in {2, 4}}

\* next !== maxConcurrent
StrictlyUnequal(a, b) == a.t = "nan" \/ b.t = "nan" \/ a.t # b.t \/ a # b

\* activate calls applyConfig() before any request is made: the limit of the
\* limiter scheduleRequest holds afterwards, maxConcurrent being 2 before.
limitInUse(setting) ==
    LET next == nextMaxConcurrent(setting) IN
    IF StrictlyUnequal(next, Num(2)) THEN makeLimiter(next).limit
    ELSE makeLimiter(Num(2)).limit

activate ==
    /\ ret = <<>>
    /\ ret' = <<limitInUse(arg)>>
    /\ UNCHANGED <<gates, units, order, coordVars, arg, debounceTimer, changes, scans, editorVars>>

SettingInit ==
    /\ Loaded
    /\ arg \in AnySettings
    /\ ret = <<>>

SettingSpec == SettingInit /\ [][activate]_vars

\* The limiter and its replacement alone: units whose outcome is their own are
\* handed to the limiter scheduleRequest holds at the time, as requestJson
\* hands its units, while applyConfig replaces that limiter. Every started
\* unit settles and every promise reaction that was queued is run.
Submit ==
    /\ Len(units) < MaxSubmits
    /\ ~MicrotaskPending
    /\ LET s == requestJson("plain", <<>>) IN
       /\ gates' = s.gates
       /\ units' = s.units
       /\ order' = s.order
    /\ UNCHANGED coordVars
    /\ UNCHANGED restVars

ReconfigNext ==
    \/ Submit
    \/ applyConfig
    \/ UnitSettles
    \/ TaskSettle
    \/ TaskFinally

\* activate has called applyConfig(): the limiter made for the setting found
\* is the one in use, and no unit was handed to the limiter it replaced.
ReconfigInit ==
    /\ \E setting \in Settings :
        /\ maxConcurrent = nextMaxConcurrent(setting).n
        /\ gates = <<makeLimiter(maxConcurrent)>>
    /\ scheduleRequest = 1
    /\ units = <<>>
    /\ order = <<>>
    /\ cache = EmptyMap
    /\ inFlight = EmptyMap
    /\ npmMetaCache = EmptyMap
    /\ npmInFlight = EmptyMap
    /\ npmMetaErrorAt = EmptyMap
    /\ now = StartNow
    /\ calls = <<>>
    /\ debounceTimer = <<>>
    /\ changes = <<>>
    /\ scans = <<>>
    /\ document = [version |-> 1, lines |-> <<>>]
    /\ renders = <<>>
    /\ decorations = [by |-> 0, decos |-> {}]
    /\ responses = {}
    /\ arg = <<>>
    /\ ret = <<>>

ReconfigSpec ==
    /\ ReconfigInit
    /\ [][ReconfigNext]_vars
    /\ \A u \in 1..MaxSubmits :
        /\ WF_vars(\E ok \in BOOLEAN : UnitSettlesOne(u, ok))
        /\ WF_vars(TaskSettleOne(u))
        /\ WF_vars(TaskFinallyOne(u))

\* The executor of the promise a request unit returns throws (https.get,
\* req.on or req.end throws): the unit's promise rejects, the one way in which
\* a unit handed to scheduleRequest fails. Spec is the program with a
\* transport that does not throw, ThrowSpec the program with one that may.
RequestThrows ==
    /\ ~MicrotaskPending
    /\ \E u \in UnitIds :
        /\ units[u].kind # "plain"
        /\ units[u].st = "running"
        /\ units' = [units EXCEPT ![u].st = "settled",
                                  ![u].outcome = [t |-> "error", v |-> u]]
    /\ UNCHANGED <<gates, order>>
    /\ UNCHANGED coordVars
    /\ UNCHANGED restVars

ThrowNext ==
    \/ fetchPackageSizes
    \/ getNpmLinks
    \/ HttpResponse
    \/ RequestThrows
    \/ TaskSettle
    \/ TaskFinally
    \/ SizeBody
    \/ SizeFinally
    \/ NpmBody
    \/ NpmFinally
    \/ Resume
    \/ Tick
    \/ applyConfig

ThrowSpec == Init /\ [][ThrowNext]_vars

\* ------------------------------------------------------------- debounce
debounceMs == 250

\* if (debounceTimer) clearTimeout(debounceTimer)
\* debounceTimer = setTimeout(callback, 250)
setDebounceKeepsPending(timer, t) ==
    IF timer # <<>> /\ timer[1].pending THEN timer
    ELSE <<[due |-> t + debounceMs, pending |-> TRUE]>>

setDebounce(timer, t) == <<[due |-> t + debounceMs, pending |-> TRUE]>>

\* A timer that is due: its callback is run before any later event is taken.
TimerDue == debounceTimer # <<>> /\ debounceTimer[1].pending /\ debounceTimer[1].due <= now

\* The handler of onDidChangeTextDocument, for a package.json document (pkg)
\* or another document, for which it returns at once.
onDidChangeTextDocument ==
    /\ Len(changes) < MaxChanges
    /\ ~TimerDue
    /\ \E pkg \in BOOLEAN :
        /\ changes' = Append(changes, [at |-> now, pkg |-> pkg])
        /\ debounceTimer' = IF pkg THEN setDebounce(debounceTimer, now) ELSE debounceTimer
    /\ UNCHANGED <<gates, units, order, coordVars, scans, arg, ret, editorVars>>

\* The callback of the timer: emitter.fire() and renderDecorations, the re-scan.
debounceCallback ==
    /\ TimerDue
    /\ scans' = Append(scans, now)
    /\ debounceTimer' = <<[debounceTimer[1] EXCEPT !.pending = FALSE]>>
    /\ UNCHANGED <<gates, units, order, coordVars, changes, arg, ret, editorVars>>

\* The clock advances by half the delay, not past the time a timer is due.
Slice == debounceMs \div 2

Wait ==
    /\ (now - StartNow) \div Slice < MaxSlices
    /\ ~TimerDue
    /\ now' = now + Slice
    /\ UNCHANGED <<gates, units, order, scheduleRequest, maxConcurrent, cache, inFlight,
                   npmMetaCache, npmInFlight, npmMetaErrorAt, calls, restVars>>

DebounceNext ==
    \/ onDidChangeTextDocument
    \/ debounceCallback
    \/ Wait

DebounceSpec == Init /\ [][DebounceNext]_vars

\* ------------------------------------------------------------- scanner
\* A line of text is the sequence of its tokens, white space left out (the
\* three expressions allow \s* wherever it can stand between these tokens): a
\* double-quoted string <<"q", content>> or a punctuation mark <<"p", mark>>.
Q(s) == <<"q", s>>
P(c) == <<"p", c>>

\* OPEN_BRACE_RE and CLOSE_BRACE_RE count every brace of the line, those inside
\* a quoted string too.
bracesIn(s, c) == IF c = "{" /\ s = "npm:{" THEN 1 ELSE 0
braceCount(line, c) ==
    Cardinality({i \in 1..Len(line) : line[i] = P(c)})
        + Cardinality({i \in 1..Len(line) : line[i][1] = "q" /\ bracesIn(line[i][2], c) > 0})

\* DEP_SECTION_HEADER_RE: ^\s*"(dependencies|[A-Za-z]+Dependencies)"\s*:\s*\{?
\* on the keys of the documents below; the key it captures, <<>> for no match.
headerMatch(line) ==
    IF /\ Len(line) >= 2
       /\ line[1][1] = "q"
       /\ line[1][2] \in {"dependencies", "devDependencies", "peerDependencies",
                           "optionalDependencies", "bundledDependencies"}
       /\ line[2] = P(":")
    THEN <<line[1][2]>> ELSE <<>>

sectionNames ==
    {"dependencies", "devDependencies", "peerDependencies", "optionalDependencies"}

\* m && sectionNames.has(m[1])
isSectionHeaderAnyKey(line) == headerMatch(line) # <<>>

isSectionHeader(line) ==
    headerMatch(line) # <<>> /\ headerMatch(line)[1] \in sectionNames

\* DEP_LINE_RE: ^\s*"([^\"]+)"\s*:\s*"([^\"]+)"; <<name, version>> or <<>>.
depMatch(line) ==
    IF /\ Len(line) >= 3
       /\ line[1][1] = "q" /\ line[1][2] # ""
       /\ line[2] = P(":")
       /\ line[3][1] = "q" /\ line[3][2] # ""
    THEN <<line[1][2], line[3][2]>> ELSE <<>>

\* items.push({ name, version, packageQuery, line: lineIndex })
itemOneBased(m, lineIndex) ==
    [name |-> m[1], version |-> m[2], packageQuery |-> m[1] \o "@" \o m[2],
     line |-> lineIndex + 1]

item(m, lineIndex) ==
    [name |-> m[1], version |-> m[2], packageQuery |-> m[1] \o "@" \o m[2],
     line |-> lineIndex]

\* The loop of parseDependenciesFromText from lineIndex on.
RECURSIVE scanFrom(_, _, _, _, _)
scanFrom(lines, lineIndex, insideSection, braceDepth, items) ==
    IF lineIndex >= Len(lines) THEN items
    ELSE
      LET lineText == lines[lineIndex + 1]
          opens == braceCount(lineText, "{")
          closes == braceCount(lineText, "}")
      IN
      IF ~insideSection
      THEN IF isSectionHeader(lineText)
           THEN scanFrom(lines, lineIndex + 1, opens - closes > 0, opens - closes, items)
           ELSE scanFrom(lines, lineIndex + 1, FALSE, braceDepth, items)
      ELSE IF braceDepth + opens - closes <= 0
           THEN scanFrom(lines, lineIndex + 1, FALSE, 0, items)
      ELSE IF depMatch(lineText) = <<>>
           THEN scanFrom(lines, lineIndex + 1, TRUE, braceDepth + opens - closes, items)
      ELSE scanFrom(lines, lineIndex + 1, TRUE, braceDepth + opens - closes,
                    Append(items, item(depMatch(lineText), lineIndex)))

\* lines: text.split(/\r?\n/)
parseDependenciesFromText(lines) == scanFrom(lines, 0, FALSE, 0, <<>>)

\* The documents scanned: a JSON object whose members (blocks) are objects of
\* "name": "specifier" declarations under a key, or the scalar "name": "demo",
\* written out in one of four layouts:
\*   perLine     the header with its opening brace, each declaration and the
\*               closing brace on a line of their own (the layout of the test)
\*   braceBelow  the opening brace on the line after the key
\*   closeAfter  the closing brace on the line of the last declaration
\*   oneLine     the whole member on one line
Layouts == {"perLine", "braceBelow", "closeAfter", "oneLine"}

Declared ==
    { <<[name |-> "react", version |-> "18.3.1"]>>,
      <<[name |-> "react", version |-> "18.3.1"], [name |-> "vue", version |-> "^3.5.0"]>>,
      <<[name |-> "x", version |-> "npm:{"]>>,
      <<[name |-> "z", version |-> ""]>> }

Blocks ==
    {[key |-> k, deps |-> ds] : k \in sectionNames, ds \in Declared}
        \cup {[key |-> k, deps |-> <<[name |-> "react", version |-> "18.3.1"]>>] :
                 k \in {"scripts", "bundledDependencies"}}
        \cup {[key |-> "name", deps |-> <<>>]}

declLine(d) == <<Q(d.name), P(":"), Q(d.version), P(",")>>

RECURSIVE flatten(_)
flatten(ls) == IF ls = <<>> THEN <<>> ELSE Head(ls) \o flatten(Tail(ls))

\* The lines of a block.
blockLines(b, layout) ==
    LET decls == [i \in 1..Len(b.deps) |-> declLine(b.deps[i])]
        header == <<Q(b.key), P(":"), P("{")>>
        close == <<P("}"), P(",")>>
    IN
    IF b.key = "name" THEN << <<Q("name"), P(":"), Q("demo"), P(",")>> >>
    ELSE CASE layout = "perLine" -> <<header>> \o decls \o <<close>>
           [] layout = "braceBelow" ->
                << <<Q(b.key), P(":")>>, <<P("{")>> >> \o decls \o <<close>>
           [] layout = "closeAfter" ->
                <<header>> \o SubSeq(decls, 1, Len(decls) - 1)
                          \o <<decls[Len(decls)] \o close>>
           [] layout = "oneLine" -> <<header \o flatten(decls) \o close>>

\* The 0-based line, within the block, of its i-th declaration.
declOffset(layout, i) ==
    CASE layout = "perLine" -> i
      [] layout = "braceBelow" -> i + 1
      [] layout = "closeAfter" -> i
      [] layout = "oneLine" -> 0

\* The lines of a document: "{", its blocks, "}".
RECURSIVE blocksLines(_, _)
blocksLines(bs, layout) ==
    IF bs = <<>> THEN <<>>
    ELSE blockLines(Head(bs), layout) \o blocksLines(Tail(bs), layout)

docLines(doc) == << <<P("{")>> >> \o blocksLines(doc.blocks, doc.layout) \o << <<P("}")>> >>

RECURSIVE Docs(_)
Docs(n) ==
    IF n = 0 THEN {<<>>}
    ELSE Docs(n - 1) \cup {Append(bs, b) : bs \in {d \in Docs(n - 1) : Len(d) = n - 1},
                                           b \in Blocks}

scan ==
    /\ ret = <<>>
    /\ ret' = <<parseDependenciesFromText(docLines(arg))>>
    /\ UNCHANGED <<gates, units, order, coordVars, debounceTimer, changes, scans, arg, editorVars>>

ScanInit ==
    /\ Loaded
    /\ arg \in {[layout |-> l, blocks |-> bs] : l \in Layouts, bs \in Docs(MaxBlocks)}
    /\ ret = <<>>

ScanSpec == ScanInit /\ [][scan]_vars

\* ------------------------------------------------------------- scanner, line by line
\* The loop of parseDependenciesFromText one iteration at a time. Its state
\* st is [lineIndex, insideSection, braceDepth, items] at a line boundary.
MaxLoopBlocks == 2

\* Lines 36-46 with a header that always enters its section.
headerStepAlwaysEnters(lineText, st) ==
    IF isSectionHeader(lineText)
    THEN [st EXCEPT !.insideSection = TRUE,
                    !.braceDepth = braceCount(lineText, "{") - braceCount(lineText, "}")]
    ELSE st

\* Lines 36-46: the scanner is outside a section.
headerStep(lineText, st) ==
    IF isSectionHeader(lineText)
    THEN LET depth == braceCount(lineText, "{") - braceCount(lineText, "}")
         IN [st EXCEPT !.insideSection = depth > 0, !.braceDepth = depth]
    ELSE st

\* Lines 48-62 with the dependency pattern tried before the depth is looked at.
sectionStepMatchesFirst(lineText, st) ==
    LET depth == st.braceDepth + braceCount(lineText, "{") - braceCount(lineText, "}")
        found == IF depMatch(lineText) = <<>> THEN st.items
                 ELSE Append(st.items, item(depMatch(lineText), st.lineIndex))
    IN IF depth <= 0
       THEN [st EXCEPT !.insideSection = FALSE, !.braceDepth = 0, !.items = found]
       ELSE [st EXCEPT !.braceDepth = depth, !.items = found]

\* Lines 48-62 with a section that closes only below depth 0.
sectionStepClosesBelowZero(lineText, st) ==
    LET depth == st.braceDepth + braceCount(lineText, "{") - braceCount(lineText, "}")
    IN IF depth < 0
       THEN [st EXCEPT !.insideSection = FALSE, !.braceDepth = 0]
       ELSE IF depMatch(lineText) = <<>>
       THEN [st EXCEPT !.braceDepth = depth]
       ELSE [st EXCEPT !.braceDepth = depth,
                       !.items = Append(st.items, item(depMatch(lineText), st.lineIndex))]

\* Lines 48-62: the scanner is inside a section.
sectionStep(lineText, st) ==
    LET depth == st.braceDepth + braceCount(lineText, "{") - braceCount(lineText, "}")
    IN IF depth <= 0
       THEN [st EXCEPT !.insideSection = FALSE, !.braceDepth = 0]
       ELSE IF depMatch(lineText) = <<>>
       THEN [st EXCEPT !.braceDepth = depth]
       ELSE [st EXCEPT !.braceDepth = depth,
                       !.items = Append(st.items, item(depMatch(lineText), st.lineIndex))]

\* One iteration of the for loop, lineIndex++ included.
scanStep(lines, st) ==
    LET lineText == lines[st.lineIndex + 1]
        after == IF st.insideSection THEN sectionStep(lineText, st)
                 ELSE headerStep(lineText, st)
    IN [after EXCEPT !.lineIndex = st.lineIndex + 1]

\* The documents scanned line by line: those of the scan above, and sections
\* with a line that is no declaration before two declarations.
LoopDeclared ==
    Declared
    \cup { <<[name |-> "z", version |-> ""], [name |-> "react", version |-> "18.3.1"],
              [name |-> "vue", version |-> "^3.5.0"]>> }
LoopBlocks ==
    {[key |-> k, deps |-> ds] : k \in {"dependencies", "devDependencies"}, ds \in LoopDeclared}
        \cup {[key |-> "bundledDependencies", deps |-> <<[name |-> "react", version |-> "18.3.1"]>>],
              [key |-> "name", deps |-> <<>>]}
RECURSIVE LoopDocs(_)
LoopDocs(n) ==
    IF n = 0 THEN {<<>>}
    ELSE LoopDocs(n - 1)
         \cup {Append(bs, b) : bs \in {d \in LoopDocs(n - 1) : Len(d) = n - 1},
                               b \in LoopBlocks}

scanLine ==
    /\ ret # <<>>
    /\ ret[1].lineIndex < Len(docLines(arg))
    /\ ret' = <<scanStep(docLines(arg), ret[1])>>
    /\ UNCHANGED <<gates, units, order, coordVars, debounceTimer, changes, scans, arg, editorVars>>

\* let insideSection = false, braceDepth = 0, items = [], lineIndex = 0
ScanLoopInit ==
    /\ Loaded
    /\ arg \in {[layout |-> l, blocks |-> bs] : l \in Layouts, bs \in LoopDocs(MaxLoopBlocks)}
    /\ ret = <<[lineIndex |-> 0, insideSection |-> FALSE, braceDepth |-> 0, items |-> <<>>]>>

ScanLoopSpec == ScanLoopInit /\ [][scanLine]_vars

\* ------------------------------------------------------------- catalog
\* A version specifier is the sequence of its pieces: " " is white space, no
\* other piece has any, and no piece is a proper part of another.
Pieces == {" ", "workspace:", "Workspace:", "catalog:", ".", "*", "^1.2.3", "alias"}

\* rawVersion.trim()
RECURSIVE trimStart(_)
trimStart(s) == IF s # <<>> /\ Head(s) = " " THEN trimStart(Tail(s)) ELSE s

RECURSIVE trimEnd(_)
trimEnd(s) ==
    IF s # <<>> /\ s[Len(s)] = " " THEN trimEnd(SubSeq(s, 1, Len(s) - 1)) ELSE s

trimEndOnly(s) == trimEnd(s)

trim(s) == trimEnd(trimStart(s))

startsWith(s, piece) == s # <<>> /\ Head(s) = piece

\* The names every object made by `{}` inherits from Object.prototype.
ObjectPrototype == {"constructor"}

\* defaultCatalog[packageName]: the catalog's own entry, or else what the
\* object inherits under that name (a function), or else undefined.
catalogEntry(defaultCatalog, packageName) ==
    IF packageName \in DOMAIN defaultCatalog THEN Str(defaultCatalog[packageName])
    ELSE IF packageName \in ObjectPrototype THEN [t |-> "function"]
    ELSE Undefined

\* A resolver that looks every catalog: specifier up in the default catalog,
\* whatever alias it names.
normalizeVersionAnyAlias(packageName, rawVersion, defaultCatalog) ==
    LET trimmed == trim(rawVersion) IN
    IF startsWith(trimmed, "workspace:") THEN [skip |-> TRUE]
    ELSE IF startsWith(trimmed, "catalog:")
    THEN LET resolved == catalogEntry(defaultCatalog, packageName)
         IN IF Truthy(resolved)
            THEN [skip |-> FALSE, resolvedVersion |-> resolved, fromCatalog |-> TRUE]
            ELSE [skip |-> TRUE]
    ELSE [skip |-> FALSE, resolvedVersion |-> Str(trimmed)]

normalizeVersionForMonorepo(packageName, rawVersion, defaultCatalog) ==
    LET trimmed == trim(rawVersion) IN
    IF startsWith(trimmed, "workspace:") THEN [skip |-> TRUE]
    ELSE IF startsWith(trimmed, "catalog:")
    THEN LET after == trim(Tail(trimmed))
             resolved == catalogEntry(defaultCatalog, packageName)
         IN IF after = <<>> \/ after = <<".">>
            THEN IF Truthy(resolved)
                 THEN [skip |-> FALSE, resolvedVersion |-> resolved, fromCatalog |-> TRUE]
                 ELSE [skip |-> TRUE]
            ELSE [skip |-> TRUE]
    ELSE [skip |-> FALSE, resolvedVersion |-> Str(trimmed)]

PackageNames == {"react", "@letsdeel/deel-it-global", "constructor"}

RECURSIVE Specifiers(_)
Specifiers(n) ==
    IF n = 0 THEN {<<>>}
    ELSE Specifiers(n - 1)
            \cup {Append(s, p) : s \in {x \in Specifiers(n - 1) : Len(x) = n - 1},
                                 p \in Pieces}

\* Default catalogs: none, one with an entry, one whose entry is the empty
\* string, one with an entry for each name.
Catalogs ==
    { EmptyMap,
      [k \in {"@letsdeel/deel-it-global"} |-> <<"^1.2.3">>],
      [k \in {"react"} |-> <<>>],
      [k \in {"react", "@letsdeel/deel-it-global"} |->
            IF k = "react" THEN <<"18.3.1">> ELSE <<"^1.2.3">>] }

normalize ==
    /\ ret = <<>>
    /\ ret' = <<normalizeVersionForMonorepo(arg.packageName, arg.rawVersion,
                                            arg.defaultCatalog)>>
    /\ UNCHANGED <<gates, units, order, coordVars, debounceTimer, changes, scans, arg, editorVars>>

NormalizeInit ==
    /\ Loaded
    /\ arg \in {[packageName |-> n, rawVersion |-> v, defaultCatalog |-> c] :
                   n \in PackageNames, v \in Specifiers(MaxPieces), c \in Catalogs}
    /\ ret = <<>>

NormalizeSpec == NormalizeInit /\ [][normalize]_vars

\* ------------------------------------------------- renderDecorations
\* One editor on a package.json. Its document is the sequence of the packages
\* its dependency lines declare; a dependency found on line i is decorated at
\* the end of line i.
MaxRenders == 3
MaxEdits == 2
MaxLines == 2

Packages == {"react", "lodash"}
Texts == UNION {[1..n -> Packages] : n \in 0..MaxLines}

\* What render r waits for before it goes on: the default catalog of the
\* workspace, read from the files once and kept in catalogCache, or the
\* fetchPackageSizes or getNpmLinks promises of its dependencies.
Stages == {"catalog", "sizes", "links"}
Wanted(r) ==
    IF renders[r].pc = "catalog" THEN {<<"catalog", "workspace">>}
    ELSE {<<renders[r].pc, renders[r].deps[i]>> : i \in 1..Len(renders[r].deps)}

\* Render r has a continuation ready to run. Continuations run before the next
\* event is taken, those of an older render before those of a newer one that
\* waited for the same promise.
Ready(r) == renders[r].pc \in Stages /\ Wanted(r) \subseteq responses
ContinuationReady == \E r \in 1..Len(renders) : Ready(r)
Continues(r) == Ready(r) /\ \A q \in 1..(r - 1) : ~Ready(q)

\* The user edits the document.
edit ==
    /\ ~ContinuationReady
    /\ document.version <= MaxEdits
    /\ \E lines \in Texts \ {document.lines} :
        document' = [version |-> document.version + 1, lines |-> lines]
    /\ UNCHANGED <<gates, units, order, coordVars, debounceTimer, changes, scans,
                   arg, ret, renders, decorations, responses>>

\* renderDecorations(editor) up to `await readDefaultCatalog(...)`, called by
\* the debounce callback, by onDidChangeActiveTextEditor or at activation:
\* with inlay hints enabled it clears the decorations and returns; otherwise
\* it takes the dependencies of the document as it is now.
renderStart ==
    /\ ~ContinuationReady
    /\ Len(renders) < MaxRenders
    /\ \E isInlayHintsEnabled \in BOOLEAN :
        IF isInlayHintsEnabled
        THEN /\ decorations' = [by |-> Len(renders) + 1, decos |-> {}]
             /\ renders' = Append(renders, [deps |-> <<>>, pc |-> "done", decos |-> {}])
        ELSE /\ renders' = Append(renders, [deps |-> document.lines, pc |-> "catalog",
                                            decos |-> {}])
             /\ UNCHANGED decorations
    /\ UNCHANGED <<gates, units, order, coordVars, debounceTimer, changes, scans,
                   arg, ret, document, responses>>

\* The files of the catalog have been read, or the response to a size or a
\* metadata request has come and the promise of the lookup is resolved.
lookupResolves ==
    /\ ~ContinuationReady
    /\ \E r \in 1..Len(renders) :
        /\ renders[r].pc \in Stages
        /\ \E w \in Wanted(r) \ responses : responses' = responses \cup {w}
    /\ UNCHANGED <<gates, units, order, coordVars, debounceTimer, changes, scans,
                   arg, ret, document, renders, decorations>>

\* After `await readDefaultCatalog(...)`: fetchPackageSizes is called for every
\* dependency and the render waits for all of them.
renderCatalogRead ==
    /\ \E r \in 1..Len(renders) :
        /\ Continues(r)
        /\ renders[r].pc = "catalog"
        /\ renders' = [renders EXCEPT ![r].pc = "sizes"]
    /\ UNCHANGED <<gates, units, order, coordVars, debounceTimer, changes, scans,
                   arg, ret, document, decorations, responses>>

\* After the size lookups: the render builds the range of each decoration from
\* the document as it is now (lineAt throws for a line the document no longer
\* has, which ends the render), calls getNpmLinks for each and waits for all
\* of them.
renderSizesDone ==
    /\ \E r \in 1..Len(renders) :
        /\ Continues(r)
        /\ renders[r].pc = "sizes"
        /\ renders' =
             IF Len(renders[r].deps) > Len(document.lines)
             THEN [renders EXCEPT ![r].pc = "threw"]
             ELSE [renders EXCEPT ![r].pc = "links",
                                  ![r].decos = {[line |-> i, name |-> renders[r].deps[i]] :
                                                   i \in 1..Len(renders[r].deps)}]
    /\ UNCHANGED <<gates, units, order, coordVars, debounceTimer, changes, scans,
                   arg, ret, document, decorations, responses>>

\* editor.setDecorations(decorationType, decos), by render r.
setDecorations(shown, r, decos) == [by |-> r, decos |-> decos]

\* After the link lookups: the render sets its decorations.
renderLinksDone ==
    /\ \E r \in 1..Len(renders) :
        /\ Continues(r)
        /\ renders[r].pc = "links"
        /\ decorations' = setDecorations(decorations, r, renders[r].decos)
        /\ renders' = [renders EXCEPT ![r].pc = "done"]
    /\ UNCHANGED <<gates, units, order, coordVars, debounceTimer, changes, scans,
                   arg, ret, document, responses>>

RenderNext ==
    \/ edit
    \/ renderStart
    \/ renderCatalogRead
    \/ lookupResolves
    \/ renderSizesDone
    \/ renderLinksDone

RenderSpec == Init /\ [][RenderNext]_vars

\* ------------------------------------------------- entries of one document
\* One package.json that does not change, decorated once by renderDecorations
\* and asked for its hints by provideInlayHints. st is the state they share:
\* the size cache, the queries in flight, the `then` callbacks waiting on
\* them, the fetchPackageSizes calls made (issued), the requests started, the
\* number of times the last step fired the emitter, and the one render with
\* the queries it waited on in the order they arrived.
MaxHintLines == 2       \* dependency lines of the document
MaxHintCalls == 2       \* calls of provideInlayHints

\* `${d.name}@${norm.resolvedVersion}`
toString(v) == IF v.t = "string" THEN v.s ELSE <<"function Object() { [native code] }">>
packageQueryOf(name, resolvedVersion) == <<name, "@">> \o toString(resolvedVersion)

\* deps.map(...).filter(Boolean), the same in renderDecorations and in
\* provideInlayHints.
RECURSIVE normalizeEntries(_, _)
normalizeEntries(deps, defaultCatalog) ==
    IF deps = <<>> THEN <<>>
    ELSE LET d == Head(deps)
             norm == normalizeVersionForMonorepo(d.name, d.version, defaultCatalog)
             rest == normalizeEntries(Tail(deps), defaultCatalog)
         IN IF norm.skip \/ ~Truthy(norm.resolvedVersion) THEN rest
            ELSE << [name |-> d.name, version |-> d.version, line |-> d.line,
                     resolvedVersion |-> norm.resolvedVersion,
                     fromCatalog |-> ("fromCatalog" \in DOMAIN norm /\ norm.fromCatalog),
                     packageQuery |-> packageQueryOf(d.name, norm.resolvedVersion)] >> \o rest

\* fetchPackageSizes(d.packageQuery) as far as its return: a cached value, the
\* promise in flight, or a new request put in flight. `by` is the caller.
fetchSizes(st, by, d) ==
    LET asked == [st EXCEPT !.issued = @ \cup {[by |-> by, line |-> d.line,
                                                query |-> d.packageQuery]}]
    IN IF MapHas(st.cache, d.packageQuery) \/ d.packageQuery \in st.inFlight THEN asked
       ELSE [asked EXCEPT !.inFlight = @ \cup {d.packageQuery}, !.started = @ + 1]

RECURSIVE fetchEach(_, _, _)
fetchEach(st, by, ds) ==
    IF ds = <<>> THEN st ELSE fetchEach(fetchSizes(st, by, Head(ds)), by, Tail(ds))

\* The slots of Promise.all(normalized.map(async (d) => ({ d, result: await
\* fetchPackageSizes(d.packageQuery) }))) filled in the order of arrival.
fillByArrival(results, normalized, packageQuery, result) ==
    LET hits == {i \in 1..Len(normalized) : normalized[i].packageQuery = packageQuery}
        free == {i \in 1..Len(results) : results[i] = <<>>}
        slots == {i \in free : Cardinality({j \in free : j < i}) < Cardinality(hits)}
    IN [i \in 1..Len(results) |->
            IF i \in slots THEN <<[d |-> normalized[i], result |-> result]>>
            ELSE results[i]]

\* The slots of Promise.all(normalized.map(async (d) => ({ d, result: await
\* fetchPackageSizes(d.packageQuery) }))): the closure of entry i fills slot i.
fillResults(results, normalized, packageQuery, result) ==
    [i \in 1..Len(results) |->
        IF results[i] = <<>> /\ normalized[i].packageQuery = packageQuery
        THEN <<[d |-> normalized[i], result |-> result]>>
        ELSE results[i]]

fillCached(results, normalized, c) ==
    [i \in 1..Len(results) |->
        IF MapHas(c, normalized[i].packageQuery)
        THEN <<[d |-> normalized[i], result |-> c[normalized[i].packageQuery]]>>
        ELSE results[i]]

\* renderDecorations from the normalization to `await Promise.all(...)` of the
\* size lookups.
renderNormalizes ==
    /\ ret[1].render.pc = "idle"
    /\ LET normalized == normalizeEntries(arg.deps, arg.defaultCatalog)
           st == fetchEach(ret[1], "renderDecorations", normalized)
       IN ret' = <<[st EXCEPT !.render =
                      [pc |-> "sizes", normalized |-> normalized, arrivals |-> <<>>,
                       results |-> fillCached([i \in 1..Len(normalized) |-> <<>>],
                                              normalized, ret[1].cache)]]>>
    /\ UNCHANGED <<gates, units, order, coordVars, debounceTimer, changes, scans, arg, editorVars>>

\* provideInlayHints after `await readDefaultCatalog(doc)`: a fetch is kicked
\* off for every query the cache does not have, with a callback that fires the
\* emitter.
kickoff(st, d) ==
    IF MapHas(st.cache, d.packageQuery) THEN st
    ELSE [fetchSizes(st, "provideInlayHints", d) EXCEPT
            !.thens = MapSet(@, d.packageQuery,
                             IF MapHas(@, d.packageQuery) THEN @[d.packageQuery] + 1 ELSE 1)]

RECURSIVE kickoffEach(_, _)
kickoffEach(st, ds) ==
    IF ds = <<>> THEN st ELSE kickoffEach(kickoff(st, Head(ds)), Tail(ds))

provideInlayHints ==
    /\ ret[1].hintCalls < MaxHintCalls
    /\ LET normalized == normalizeEntries(arg.deps, arg.defaultCatalog)
           st == kickoffEach(ret[1], normalized)
       IN ret' = <<[st EXCEPT !.hintCalls = @ + 1, !.fired = 0]>>
    /\ UNCHANGED <<gates, units, order, coordVars, debounceTimer, changes, scans, arg, editorVars>>

\* How the request of a query ends: with sizes, with a body that is no size
\* response (or none), or with the unit of the request failing.
SizeOutcomes ==
    {[t |-> "sizes", text |-> <<"1 kB (1 kB)">>], [t |-> "miss"], [t |-> "throws"]}

\* The promise in flight of a query settles: the body of fetchPackageSizes
\* caches its value, the finally takes the query out of inFlight, and the
\* callbacks waiting on the promise run. A rejection runs no `then` callback
\* and rejects the Promise.all of a render that waits on it.
sizeSettles ==
    /\ \E packageQuery \in ret[1].inFlight, outcome \in SizeOutcomes :
        LET st == ret[1]
            waits == /\ st.render.pc = "sizes"
                     /\ \E i \in 1..Len(st.render.results) :
                            /\ st.render.results[i] = <<>>
                            /\ st.render.normalized[i].packageQuery = packageQuery
            callbacks == IF MapHas(st.thens, packageQuery) THEN st.thens[packageQuery] ELSE 0
            value == IF outcome.t = "sizes" THEN [text |-> outcome.text]
                     ELSE [text |-> <<"error">>]
        IN IF outcome.t = "throws"
           THEN ret' = <<[st EXCEPT !.inFlight = @ \ {packageQuery},
                                    !.thens = MapDelete(@, packageQuery),
                                    !.fired = 0,
                                    !.render.pc = IF waits THEN "threw" ELSE @]>>
           ELSE ret' = <<[st EXCEPT !.cache = MapSet(@, packageQuery, value),
                                    !.inFlight = @ \ {packageQuery},
                                    !.thens = MapDelete(@, packageQuery),
                                    !.fired = callbacks,
                                    !.render.arrivals =
                                        IF waits THEN Append(@, packageQuery) ELSE @,
                                    !.render.results =
                                        IF st.render.pc = "sizes"
                                        THEN fillResults(@, st.render.normalized,
                                                         packageQuery, value)
                                        ELSE @]>>
    /\ UNCHANGED <<gates, units, order, coordVars, debounceTimer, changes, scans, arg, editorVars>>

\* renderDecorations after the size lookups: one decoration for each result,
\* at the end of the line of its entry, with the text of its result (the
\* pinned version and the links of a decoration are left out).
decoration(r) ==
    [line |-> r.d.line, fromCatalog |-> r.d.fromCatalog, text |-> r.result.text]

renderDecorates ==
    /\ ret[1].render.pc = "sizes"
    /\ \A i \in 1..Len(ret[1].render.results) : ret[1].render.results[i] # <<>>
    /\ ret' = <<[ret[1] EXCEPT
                    !.render.pc = "done",
                    !.fired = 0,
                    !.decos = [i \in 1..Len(ret[1].render.results) |->
                                  decoration(ret[1].render.results[i][1])]]>>
    /\ UNCHANGED <<gates, units, order, coordVars, debounceTimer, changes, scans, arg, editorVars>>

\* The dependency lines of the document: plain, workspace, default catalog,
\* named alias, and default catalog for a name no catalog lists.
HintDeclared ==
    {[name |-> "react", version |-> <<"^1.2.3">>],
     [name |-> "react", version |-> <<"workspace:", "*">>],
     [name |-> "@letsdeel/deel-it-global", version |-> <<" ", "catalog:", ".">>],
     [name |-> "@letsdeel/deel-it-global", version |-> <<"catalog:", "alias">>],
     [name |-> "constructor", version |-> <<"catalog:">>]}

HintDocs ==
    UNION {{[i \in 1..n |-> [name |-> f[i].name, version |-> f[i].version, line |-> i + 1]] :
               f \in [1..n -> HintDeclared]} : n \in 0..MaxHintLines}

HintCatalogs ==
    {EmptyMap, [k \in {"@letsdeel/deel-it-global"} |-> <<"^1.2.3">>]}

HintInit ==
    /\ Loaded
    /\ arg \in {[deps |-> ds, defaultCatalog |-> c] : ds \in HintDocs, c \in HintCatalogs}
    /\ ret = <<[cache |-> EmptyMap, inFlight |-> {}, thens |-> EmptyMap, started |-> 0,
                fired |-> 0, hintCalls |-> 0, issued |-> {},
                render |-> [pc |-> "idle", normalized |-> <<>>, results |-> <<>>,
                            arrivals |-> <<>>],
                decos |-> <<>>]>>

HintNext ==
    \/ renderNormalizes
    \/ provideInlayHints
    \/ sizeSettles
    \/ renderDecorates

HintSpec == HintInit /\ [][HintNext]_vars

\* ------------------------------------------------- formatting a byte count
MaxKilo == 4
MaxMega == 3

Infinity(negative) == [t |-> "infinity", negative |-> negative]

\* The numbers formatted: the small integers from -2 on, the integers around
\* each multiple of 1024 and of 1048576 and those where the rounded tenth
\* changes, NaN and the two infinities.
ByteCounts ==
    {Num(n) : n \in -2..30}
    \cup {Num(n) : n \in {999, 1000, 1023}}
    \cup {Num(1024 * k + d) : k \in 1..MaxKilo, d \in {-1, 0, 1, 51, 52, 256}}
    \cup {Num(1048576 * k + d) : k \in 1..MaxMega, d \in {-1, 0, 1, 52428, 52429, 262144}}
    \cup {NaN, Infinity(FALSE), Infinity(TRUE)}

format ==
    /\ ret = <<>>
    /\ ret' = <<formatBytes(arg)>>
    /\ UNCHANGED <<gates, units, order, coordVars, debounceTimer, changes, scans, arg, editorVars>>

FormatInit ==
    /\ Loaded
    /\ arg \in ByteCounts
    /\ ret = <<>>

FormatSpec == FormatInit /\ [][format]_vars

\* ------------------------------------------------- pinned version
\* A raw specifier is the sequence of its characters (workspace:* stands for
\* a run of characters none of which is a digit, a range mark or a space).
MaxSegments == 3

\* \d and [0-9A-Za-z.-]
digit(c) == c \in {"0", "1", "2", "3"}
prerelease(c) == digit(c) \/ c \in {"a", ".", "-"}

\* The index of the last character of the longest run of characters of one
\* class that starts at i; i - 1 when there is none.
RECURSIVE digitsEnd(_, _)
digitsEnd(raw, i) ==
    IF i <= Len(raw) /\ digit(raw[i]) THEN digitsEnd(raw, i + 1) ELSE i - 1
RECURSIVE prereleaseEnd(_, _)
prereleaseEnd(raw, i) ==
    IF i <= Len(raw) /\ prerelease(raw[i]) THEN prereleaseEnd(raw, i + 1) ELSE i - 1

\* SEMVER_RE = /\d+\.\d+\.\d+(?:-[0-9A-Za-z.-]+)?/ tried at index i: the index
\* of the last character matched, 0 when it does not match there.
semverAt(raw, i) ==
    LET major == digitsEnd(raw, i)
        minor == digitsEnd(raw, major + 2)
        patch == digitsEnd(raw, minor + 2)
        tag == prereleaseEnd(raw, patch + 2)
    IN IF /\ major >= i
          /\ major + 1 <= Len(raw) /\ raw[major + 1] = "."
          /\ minor >= major + 2
          /\ minor + 1 <= Len(raw) /\ raw[minor + 1] = "."
          /\ patch >= minor + 2
       THEN IF patch + 1 <= Len(raw) /\ raw[patch + 1] = "-" /\ tag >= patch + 2
            THEN tag ELSE patch
       ELSE 0

\* raw.match(SEMVER_RE): <<match[0]>>, or <<>> for null.
semverMatch(raw) ==
    LET starts == {i \in 1..Len(raw) : semverAt(raw, i) > 0}
    IN IF starts = {} THEN <<>>
       ELSE LET i == CHOOSE i \in starts : \A j \in starts : i <= j
            IN <<SubSeq(raw, i, semverAt(raw, i))>>

\* A replace that takes every leading range mark off.
RECURSIVE stripRangeAll(_)
stripRangeAll(raw) ==
    IF trimStart(raw) # <<>> /\ Head(trimStart(raw)) \in {"~", "^"}
    THEN stripRangeAll(Tail(trimStart(raw))) ELSE raw

\* raw.replace(/^\s*[~^]/, '')
stripRange(raw) ==
    IF trimStart(raw) # <<>> /\ Head(trimStart(raw)) \in {"~", "^"}
    THEN Tail(trimStart(raw)) ELSE raw

extractPinnedVersion(raw) ==
    IF semverMatch(raw) # <<>> THEN semverMatch(raw)[1]
    ELSE trim(stripRange(raw))

\* The specifiers tried: up to MaxSegments of these runs, one after another.
Segments ==
    { <<" ">>, <<"^">>, <<"~">>, <<".">>, <<"1">>, <<"a">>, <<"workspace:*">>,
      <<"1", ".", "2">>, <<"1", ".", "2", ".", "3">>, <<"2", ".", "0", ".", "0">>,
      <<"-", "a", ".", "1">> }
RECURSIVE RawSpecifiers(_)
RawSpecifiers(n) ==
    IF n = 0 THEN {<<>>}
    ELSE RawSpecifiers(n - 1)
         \cup {head \o seg : head \in RawSpecifiers(n - 1), seg \in Segments}

extract ==
    /\ ret = <<>>
    /\ ret' = <<extractPinnedVersion(arg)>>
    /\ UNCHANGED <<gates, units, order, coordVars, debounceTimer, changes, scans, arg, editorVars>>

ExtractInit ==
    /\ Loaded
    /\ arg \in RawSpecifiers(MaxSegments)
    /\ ret = <<>>

ExtractSpec == ExtractInit /\ [][extract]_vars

\* ------------------------------------------------- catalog from package.json
\* JSON values: null, numbers, strings, and objects as maps from keys to values.
Null == [t |-> "null"]
Obj(o) == [t |-> "object", o |-> o]

\* typeof v
typeOf(v) == IF v.t = "null" THEN "object" ELSE v.t

\* obj[k] as read from a value that is not null or undefined.
Get(obj, k) == IF obj.t = "object" /\ k \in DOMAIN obj.o THEN obj.o[k] ELSE Undefined

\* The string-valued entries of an object: what tryAssign's loop assigns.
stringKeys(src) == {k \in DOMAIN src.o : src.o[k].t = "string"}

\* A tryAssign that leaves a key alone once an earlier source has set it.
tryAssignKeepsEarlier(result, src) ==
    IF Truthy(src) /\ typeOf(src) = "object"
    THEN [k \in DOMAIN result \cup stringKeys(src) |->
            IF k \in DOMAIN result THEN result[k] ELSE src.o[k].s]
    ELSE result

\* tryAssign(src), as the map it leaves in `result`.
tryAssign(result, src) ==
    IF Truthy(src) /\ typeOf(src) = "object"
    THEN [k \in DOMAIN result \cup stringKeys(src) |->
            IF k \in stringKeys(src) THEN src.o[k].s ELSE result[k]]
    ELSE result

parseDefaultCatalogFromPackageJson(pkgJson) ==
    IF ~Truthy(pkgJson) \/ typeOf(pkgJson) # "object" THEN EmptyMap
    ELSE LET top == IF Truthy(Get(pkgJson, "catalog"))
                    THEN tryAssign(EmptyMap, Get(pkgJson, "catalog"))
                    ELSE EmptyMap
             pnpm == Get(pkgJson, "pnpm")
         IN IF ~Truthy(pnpm) THEN top
            ELSE LET scoped == IF Truthy(Get(pnpm, "catalog"))
                               THEN tryAssign(top, Get(pnpm, "catalog"))
                               ELSE top
                     catalogs == Get(pnpm, "catalogs")
                 IN IF Truthy(catalogs) /\ typeOf(Get(catalogs, "default")) = "object"
                    THEN tryAssign(scoped, Get(catalogs, "default"))
                    ELSE scoped

\* The manifests tried: every combination of the three sources, each absent,
\* null, a string, or an object over two package names whose values are
\* strings or a number; also manifests without pnpm or pnpm.catalogs, and
\* manifests that are no object.
CatalogKeys == {"@a/one", "@b/two"}
CatalogValues == {Str(<<"1.0.0">>), Str(<<"^2.0.0">>), Num(1)}
Maps(keys, values) == UNION {[d -> values] : d \in SUBSET keys}
Sources == {Undefined, Null, Str(<<"1.0.0">>)} \cup {Obj(o) : o \in Maps(CatalogKeys, CatalogValues)}
Manifest(shape, c, pc, pcd) ==
    CASE shape = "full" ->
            Obj([catalog |-> c,
                 pnpm |-> Obj([catalog |-> pc, catalogs |-> Obj([default |-> pcd])])])
      [] shape = "noCatalogs" -> Obj([catalog |-> c, pnpm |-> Obj([catalog |-> pc])])
      [] shape = "noPnpm" -> Obj([catalog |-> c])
      [] shape = "null" -> Null
      [] shape = "string" -> Str(<<"1.0.0">>)
Manifests ==
    {[pkgJson |-> Manifest("full", c, pc, pcd), sources |-> <<c, pc, pcd>>] :
        c \in Sources, pc \in Sources, pcd \in Sources}
    \cup {[pkgJson |-> Manifest("noCatalogs", c, pc, Undefined),
           sources |-> <<c, pc, Undefined>>] : c \in Sources, pc \in Sources}
    \cup {[pkgJson |-> Manifest("noPnpm", c, Undefined, Undefined),
           sources |-> <<c, Undefined, Undefined>>] : c \in Sources}
    \cup {[pkgJson |-> Manifest(shape, Undefined, Undefined, Undefined),
           sources |-> <<Undefined, Undefined, Undefined>>] : shape \in {"null", "string"}}

parseManifest ==
    /\ ret = <<>>
    /\ ret' = <<parseDefaultCatalogFromPackageJson(arg.pkgJson)>>
    /\ UNCHANGED <<gates, units, order, coordVars, debounceTimer, changes, scans, arg, editorVars>>

ManifestInit ==
    /\ Loaded
    /\ arg \in Manifests
    /\ ret = <<>>

ManifestSpec == ManifestInit /\ [][parseManifest]_vars

\* ------------------------------------------------- catalog from workspace yaml
\* A line of the workspace file is the sequence of its pieces: a space, a
\* colon, a hash, a quote mark, or a word without any of these.
MaxYamlLines == 4

\* n spaces.
Spaces(n) == [i \in 1..n |-> " "]

\* value.replace(/^['"]|['"]$/g, ''): one quote off the front, then one off the
\* end of what remains.
Quotes == {"\"", "'"}
stripQuotesFrontOnly(value) ==
    IF value # <<>> /\ Head(value) \in Quotes THEN Tail(value) ELSE value

stripQuotes(value) ==
    LET front == IF value # <<>> /\ Head(value) \in Quotes THEN Tail(value) ELSE value
    IN IF front # <<>> /\ front[Len(front)] \in Quotes
       THEN SubSeq(front, 1, Len(front) - 1) ELSE front

\* rawLine.replace(/#.*$/, ''): the line up to its first hash.
stripComment(rawLine) ==
    LET hashes == {i \in 1..Len(rawLine) : rawLine[i] = "#"}
    IN IF hashes = {} THEN rawLine
       ELSE SubSeq(rawLine, 1, (CHOOSE i \in hashes : \A j \in hashes : i <= j) - 1)

\* line.match(/^\s*/)[0].length
leadingSpaces(line) ==
    IF \A i \in 1..Len(line) : line[i] = " " THEN Len(line)
    ELSE (CHOOSE i \in 1..Len(line) : line[i] # " " /\ \A j \in 1..(i - 1) : line[j] = " ") - 1

\* line.match(/^(\s*)catalog\s*:\s*$/): <<m[1].length>>, or <<>> for no match.
catalogMatch(line) ==
    IF trim(line) # <<>> /\ Head(trim(line)) = "catalog"
       /\ trim(Tail(trim(line))) = <<":">>
    THEN <<leadingSpaces(line)>> ELSE <<>>

\* line.match(/^[\s-]*(["'][^"']+["']|[^:\s][^:]*)\s*:\s*(.+?)\s*$/) on lines
\* whose quoted keys hold no colon: after the leading spaces and dashes the
\* key runs up to the first colon and the value is the rest without the
\* spaces around it; <<key, value>>, or <<>> for no match.
RECURSIVE dropLead(_)
dropLead(line) ==
    IF line # <<>> /\ Head(line) \in {" ", "-"} THEN dropLead(Tail(line)) ELSE line

kvMatch(line) ==
    LET rest == dropLead(line)
        colons == {i \in 1..Len(rest) : rest[i] = ":"}
    IN IF colons = {} THEN <<>>
       ELSE LET c == CHOOSE i \in colons : \A j \in colons : i <= j
                key == SubSeq(rest, 1, c - 1)
                value == trim(SubSeq(rest, c + 1, Len(rest)))
            IN IF key = <<>> \/ value = <<>> THEN <<>> ELSE <<key, value>>

\* leadingSpaces <= catalogIndent: the line ends the catalog block.
endsBlockBelowOnly(indent, catalogIndent) == indent < catalogIndent

endsBlock(indent, catalogIndent) == indent <= catalogIndent

\* The loop of parseDefaultCatalogFromYaml from line i on.
RECURSIVE yamlFrom(_, _, _, _, _)
yamlFrom(lines, i, inside, catalogIndent, result) ==
    IF i >= Len(lines) THEN result
    ELSE
      LET line == stripComment(lines[i + 1]) IN
      IF ~inside
      THEN IF catalogMatch(line) # <<>>
           THEN yamlFrom(lines, i + 1, TRUE, catalogMatch(line)[1], result)
           ELSE yamlFrom(lines, i + 1, FALSE, catalogIndent, result)
      ELSE IF trim(line) = <<>>
           THEN yamlFrom(lines, i + 1, TRUE, catalogIndent, result)
      ELSE IF endsBlock(leadingSpaces(line), catalogIndent)
           THEN result
      ELSE IF kvMatch(line) = <<>>
           THEN yamlFrom(lines, i + 1, TRUE, catalogIndent, result)
      ELSE LET key == stripQuotes(trim(kvMatch(line)[1]))
               value == stripQuotes(trim(kvMatch(line)[2]))
           IN IF key # <<>> /\ value # <<>>
              THEN yamlFrom(lines, i + 1, TRUE, catalogIndent, MapSet(result, key, value))
              ELSE yamlFrom(lines, i + 1, TRUE, catalogIndent, result)

\* lines: yamlText.split(/\r?\n/)
parseDefaultCatalogFromYaml(lines) == yamlFrom(lines, 0, FALSE, 0, EmptyMap)

\* The lines the workspace files are made of: the catalog: line at two
\* indentations (one with a trailing comment), entries at three indentations
\* with double-quoted, single-quoted and bare keys and values, a key without
\* a value at two indentations, a blank line, a line of spaces and a comment.
YamlLines ==
    { [kind |-> "header", indent |-> 0, comment |-> FALSE],
      [kind |-> "header", indent |-> 2, comment |-> TRUE],
      [kind |-> "entry", indent |-> 2, key |-> "@a/one", kq |-> "\"",
       value |-> "1.0.0", vq |-> "\"", comment |-> FALSE],
      [kind |-> "entry", indent |-> 2, key |-> "@b/two", kq |-> "",
       value |-> "^2.0.0", vq |-> "", comment |-> TRUE],
      [kind |-> "entry", indent |-> 4, key |-> "@a/one", kq |-> "'",
       value |-> "^2.0.0", vq |-> "", comment |-> FALSE],
      [kind |-> "entry", indent |-> 0, key |-> "@b/two", kq |-> "",
       value |-> "1.0.0", vq |-> "'", comment |-> FALSE],
      [kind |-> "keyOnly", indent |-> 0, key |-> "packages", comment |-> FALSE],
      [kind |-> "keyOnly", indent |-> 2, key |-> "packages", comment |-> FALSE],
      [kind |-> "blank", indent |-> 0, comment |-> FALSE],
      [kind |-> "blank", indent |-> 1, comment |-> FALSE],
      [kind |-> "blank", indent |-> 0, comment |-> TRUE] }

quoted(q, word) == IF q = "" THEN <<word>> ELSE <<q, word, q>>

yamlLine(l) ==
    Spaces(l.indent)
    \o (CASE l.kind = "header" -> <<"catalog", ":">>
          [] l.kind = "entry" -> quoted(l.kq, l.key) \o <<":", " ">> \o quoted(l.vq, l.value)
          [] l.kind = "keyOnly" -> <<l.key, ":">>
          [] l.kind = "blank" -> <<>>)
    \o (IF l.comment THEN <<" ", "#", "note", ":", " ", "x">> ELSE <<>>)

YamlShapes(n) == UNION {[1..m -> YamlLines] : m \in 0..n}

parseYaml ==
    /\ ret = <<>>
    /\ ret' = <<parseDefaultCatalogFromYaml(arg.lines)>>
    /\ UNCHANGED <<gates, units, order, coordVars, debounceTimer, changes, scans, arg, editorVars>>

YamlInit ==
    /\ Loaded
    /\ arg \in {[shape |-> sh, lines |-> [i \in 1..Len(sh) |-> yamlLine(sh[i])]] :
                   sh \in YamlShapes(MaxYamlLines)}
    /\ ret = <<>>

YamlSpec == YamlInit /\ [][parseYaml]_vars

\* ------------------------------------------------------------- limiter claims
Running(g) == {u \in UnitIds : units[u].gate = g /\ units[u].st = "running"}

\* The units that hold one of gate g's slots: run() invoked, .finally not yet run.
Holding(g) ==
    {u \in UnitIds : units[u].gate = g
                     /\ units[u].st \in {"running", "settled", "delivered"}}

\* C1: for a limiter created with an integer limit L >= 1, the number of units
\* that have been started and have not yet settled is never greater than L.
C1_RunningAtMostLimit ==
    \A g \in 1..Len(gates) :
        /\ Cardinality(Running(g)) <= gates[g].limit
        /\ gates[g].activeCount <= gates[g].limit

\* C1 witness: the limiter is full with a unit waiting, after a unit has
\* failed and a unit has succeeded.
C1_Witness ==
    /\ Cardinality(Running(1)) = gates[1].limit
    /\ gates[1].queue # <<>>
    /\ \E u, v \in UnitIds :
        /\ units[u].st = "released" /\ units[u].outcome.t = "error"
        /\ units[v].st = "released" /\ units[v].outcome.t = "value"

\* C2: units are started strictly in submission order: of two units submitted
\* to the same limiter, the one submitted first has its run begin first.
C2_StartedInSubmissionOrder ==
    /\ \A i, j \in 1..Len(order) :
        (i < j /\ units[order[i]].gate = units[order[j]].gate) => order[i] < order[j]
    /\ \A u, v \in UnitIds :
        (u < v /\ units[u].gate = units[v].gate /\ units[v].st # "queued")
            => units[u].st # "queued"

\* C2 witness: two units were waiting in the queue together and both have been
\* started since, the earlier one after a failure freed its slot.
C2_Witness ==
    /\ Len(order) = MaxUnits
    /\ \E u \in UnitIds : units[u].st = "released" /\ units[u].outcome.t = "error"
    /\ units[MaxUnits].st = "running"
    /\ units[MaxUnits - 1].st = "running"

\* C3: the promise a submission returns settles with that unit's own value or
\* own error; a failing unit releases its slot exactly as a succeeding one, so
\* the slots in use are exactly those of the units started and not yet released.
C3_OwnOutcomeAndSlotReleased ==
    /\ \A u \in UnitIds :
        /\ units[u].st \in {"delivered", "released"}
            => /\ units[u].result = units[u].outcome
               /\ units[u].result.v = u
        /\ units[u].st \in {"queued", "running", "settled"}
            => units[u].result = Pending
    /\ \A g \in 1..Len(gates) : gates[g].activeCount = Cardinality(Holding(g))

\* C3 witness: a unit failed and its caller got that error, a sibling got its
\* own value, and a unit queued behind the failing one has been started.
C3_Witness ==
    \E u, v, w \in UnitIds :
        /\ units[u].st = "released"
        /\ units[u].result = [t |-> "error", v |-> u]
        /\ units[v].result = [t |-> "value", v |-> v]
        /\ w > gates[1].limit
        /\ units[w].st = "running"
        /\ order[Len(order)] = w
        /\ gates[1].activeCount = gates[1].limit

\* C4: if every started unit eventually settles, every submitted unit is
\* eventually started and its caller's promise eventually settles.
C4_EverySubmittedUnitSettles ==
    \A u \in 1..MaxUnits :
        (u \in UnitIds)
            ~> (u \in UnitIds /\ units[u].st # "queued" /\ units[u].result # Pending)

\* C4 witness: every unit has settled its caller's promise, among them one
\* that waited in the queue behind a unit that failed.
C4_Witness ==
    /\ Len(units) = MaxUnits
    /\ \A u \in UnitIds : units[u].result # Pending
    /\ \E u, v \in UnitIds :
        /\ u < v
        /\ units[u].outcome.t = "error"
        /\ v > gates[1].limit

\* ------------------------------------------------------------- coordinator claims
CallIds == 1..Len(calls)

\* The size requests handed to a limiter for pkgSpecifier.
SizeRequests(pkgSpecifier) ==
    {u \in UnitIds : units[u].kind = "size" /\ units[u].key = <<pkgSpecifier>>}

C8_NpmKeyCachedOrInFlight ==
    \A u \in UnitIds :
        units[u].kind = "meta" =>
            \/ MapHas(npmMetaCache, units[u].key)
            \/ MapHas(npmInFlight, units[u].key)

NoRepositoryUrl(links) ==
    ("githubUrl" \in DOMAIN links) => links.githubUrl = Undefined

\* C9: after a metadata fetch for a key has failed, a getNpmLinks lookup of
\* the key made within the backoff window issues no request and returns the
\* npm URL and no repository URL.
C9_NoFetchWithinBackoff ==
    \A c \in CallIds :
        ( /\ calls[c].fn = "getNpmLinks"
          /\ calls[c].failedAt > 0
          /\ calls[c].at - calls[c].failedAt < backoffMs )
        => /\ ~calls[c].issuer
           /\ calls[c].awaiting = 0
           /\ calls[c].result # Pending
           /\ calls[c].result.npmUrl = npmUrl(calls[c].key[1], calls[c].key[2])
           /\ NoRepositoryUrl(calls[c].result)

\* C9 witness: a lookup made half a window after the failure.
C9_Witness ==
    \E c \in CallIds :
        /\ calls[c].fn = "getNpmLinks"
        /\ calls[c].failedAt > 0
        /\ calls[c].at > calls[c].failedAt
        /\ calls[c].at - calls[c].failedAt < backoffMs
        /\ calls[c].awaiting = 0

\* C10: after a metadata fetch for a key has failed and the backoff window has
\* elapsed, the next getNpmLinks lookup of the key issues a new metadata fetch.
C10_RefetchAfterBackoff ==
    \A c \in CallIds :
        ( /\ calls[c].fn = "getNpmLinks"
          /\ calls[c].failedAt > 0
          /\ calls[c].at - calls[c].failedAt >= backoffMs
          /\ \A d \in 1..(c - 1) :
                ~( /\ calls[d].fn = "getNpmLinks"
                   /\ calls[d].key = calls[c].key
                   /\ calls[d].failedAt = calls[c].failedAt
                   /\ calls[d].at - calls[d].failedAt >= backoffMs ) )
        => calls[c].issuer
\* ------------------------------------------------------------- cache claims
\* C11: every completed metadata fetch, successful or failed, leaves an entry
\* for its key in npmMetaCache (once the continuations of its response have
\* run), and every getNpmLinks call made while the key is in npmMetaCache
\* returns at once with the cached repository link, or none, and sends no
\* request.
C11_MetadataOutcomeMemoized ==
    /\ ~MicrotaskPending =>
          \A u \in UnitIds :
              (units[u].kind = "meta" /\ units[u].outcome # Pending)
                  => /\ MapHas(npmMetaCache, units[u].key)
                     /\ "githubUrl" \in DOMAIN units[u].pval
                     /\ npmMetaCache[units[u].key] = [githubUrl |-> units[u].pval.githubUrl]
    /\ \A c \in CallIds :
          (calls[c].fn = "getNpmLinks" /\ calls[c].seen # {})
              => /\ ~calls[c].issuer
                 /\ calls[c].awaiting = 0
                 /\ DOMAIN calls[c].result = {"npmUrl", "githubUrl"}
                 /\ calls[c].result.npmUrl = npmUrl(calls[c].key[1], calls[c].key[2])
                 /\ \A e \in calls[c].seen : calls[c].result.githubUrl = e.githubUrl

\* C11 witness: a lookup answered from the entry a failed fetch left, after
\* the backoff window of that failure has passed.
C11_Witness ==
    \E c \in CallIds :
        /\ calls[c].fn = "getNpmLinks"
        /\ calls[c].seen = {[githubUrl |-> Undefined]}
        /\ calls[c].failedAt > 0
        /\ calls[c].at - calls[c].failedAt >= backoffMs
\* C12: a size response that is absent or has no numeric size or no numeric
\* gzip is stored in cache as the value with text "error", and every later
\* fetchPackageSizes call for the same query returns that value and sends no
\* request.
C12_SizeErrorCachedForGood ==
    /\ \A u \in UnitIds :
          ( /\ units[u].kind = "size"
            /\ units[u].co \in {"p0", "p1"}
            /\ \/ units[u].result.v.t # "object"
               \/ units[u].result.v.size.t # "number"
               \/ units[u].result.v.gzip.t # "number" )
              => /\ units[u].pval = [text |-> "error"]
                 /\ MapHas(cache, units[u].key[1])
                 /\ cache[units[u].key[1]] = [text |-> "error"]
    /\ \A c \in CallIds :
          (calls[c].fn = "fetchPackageSizes" /\ calls[c].seen = {[text |-> "error"]})
              => /\ ~calls[c].issuer
                 /\ calls[c].awaiting = 0
                 /\ calls[c].result = [text |-> "error"]
                 /\ Cardinality(SizeRequests(calls[c].key[1])) = 1

\* C12 witness: a call answered with the cached error a response with a
\* numeric size and no gzip left.
C12_Witness ==
    \E c \in CallIds, u \in UnitIds :
        /\ calls[c].fn = "fetchPackageSizes"
        /\ calls[c].seen = {[text |-> "error"]}
        /\ units[u].kind = "size"
        /\ units[u].key = calls[c].key
        /\ units[u].result # Pending
        /\ units[u].result.v.t = "object"
        /\ units[u].result.v.size.t = "number"
\* C13: whatever the transport does (a JSON body, a status >= 400, an
\* unparsable body, a connection error, a failure of the unit handed to the
\* limiter), the promises fetchPackageSizes and getNpmLinks return resolve to
\* a value and never reject.
C13_CallsNeverReject ==
    \A c \in CallIds : ~IsRejected(calls[c].result)
\* ------------------------------------------------------------- configuration claims
\* C14: when the limit is reconfigured to a different value the gate is
\* replaced by a fresh one. No unit moves to another gate and no gate's limit
\* changes, so the units queued or running on an old gate are admitted by it
\* under its own limit; each of them is eventually started and settled; the
\* requests submitted after the change go through the new gate.
C14_OldGateDrainsUnderOldLimit ==
    /\ [](/\ scheduleRequest = Len(gates)
          /\ gates[scheduleRequest].limit = maxConcurrent
          /\ \A g \in 1..(Len(gates) - 1) : gates[g].limit # gates[g + 1].limit
          /\ \A g \in 1..Len(gates) :
                /\ Cardinality(Holding(g)) = gates[g].activeCount
                /\ gates[g].activeCount <= gates[g].limit
                /\ \A i \in 1..Len(gates[g].queue) :
                      /\ units[gates[g].queue[i]].gate = g
                      /\ units[gates[g].queue[i]].st = "queued"
          /\ \A u, v \in UnitIds : u < v => units[u].gate <= units[v].gate)
    /\ [][/\ \A g \in 1..Len(gates) : gates'[g].limit = gates[g].limit
          /\ \A u \in UnitIds : units'[u].gate = units[u].gate
          /\ \A u \in 1..Len(units') :
                u \notin UnitIds => units'[u].gate = scheduleRequest']_vars
    /\ \A u \in 1..MaxSubmits :
          (u \in UnitIds /\ units[u].gate # scheduleRequest)
              ~> (u \in UnitIds /\ units[u].st = "released")

\* C14 witness: a unit still waiting in the queue of the replaced gate while a
\* request submitted after the change is running on the new gate.
C14_Witness ==
    \E u, v \in UnitIds :
        /\ units[u].gate # scheduleRequest
        /\ units[u].st = "queued"
        /\ units[v].gate = scheduleRequest
        /\ units[v].st = "running"
\* C15: for every value of the maxConcurrentRequests setting (absent, zero,
\* negative, fractional, not a number) the limit of the gate in use is an
\* integer of at least 1, and it is 2 when the setting is absent.
C15_LimitIsIntegerAtLeastOne ==
    ret # <<>> =>
        /\ ret[1].t = "number"
        /\ ret[1].n >= 1
        /\ arg = Undefined => ret[1].n = 2
\* C16: at every moment the number of outbound requests in progress, size and
\* metadata requests together, is at most the currently configured maximum
\* number of concurrent requests, also after the setting has been changed
\* while requests were queued or running.
C16_InProgressAtMostConfigured ==
    Cardinality({u \in UnitIds : units[u].kind # "plain" /\ units[u].st = "running"})
        <= maxConcurrent
\* ------------------------------------------------------------- debounce claim
\* The package.json change events, and those that end a burst: the next one,
\* if any, comes debounceMs or more later.
PkgChanges == {i \in 1..Len(changes) : changes[i].pkg}
EndsBurst(i) ==
    /\ i \in PkgChanges
    /\ \A j \in PkgChanges : j > i => changes[j].at >= changes[i].at + debounceMs

\* C17: a burst of change events, each less than 250 after the one before,
\* triggers exactly one re-scan, 250 after the last event of the burst: the
\* re-scans made so far are those of the bursts that ended 250 ago or longer,
\* one each.
C17_OneScanPerBurst ==
    /\ {scans[k] : k \in 1..Len(scans)} \cup (IF TimerDue THEN {now} ELSE {})
          = {changes[i].at + debounceMs :
                i \in {j \in PkgChanges : EndsBurst(j) /\ changes[j].at + debounceMs <= now}}
    /\ \A k, l \in 1..Len(scans) : k # l => scans[k] # scans[l]

\* C17 witness: a burst of three events, each half the delay after the one
\* before, then its re-scan, then a further event that has had its own.
C17_Witness ==
    /\ Len(scans) = 2
    /\ \E i, j, k \in PkgChanges :
        /\ changes[j].at = changes[i].at + Slice
        /\ changes[k].at = changes[j].at + Slice
        /\ scans[1] = changes[k].at + debounceMs
\* ------------------------------------------------------------- scanner claims
\* The declarations of a document in its recognized sections, in document
\* order, each with the 0-based index of its line.
RECURSIVE declaredFrom(_, _, _)
declaredFrom(bs, layout, at) ==
    IF bs = <<>> THEN <<>>
    ELSE (IF Head(bs).key \in sectionNames
          THEN [i \in 1..Len(Head(bs).deps) |->
                   [name |-> Head(bs).deps[i].name, version |-> Head(bs).deps[i].version,
                    line |-> at + declOffset(layout, i)]]
          ELSE <<>>)
         \o declaredFrom(Tail(bs), layout, at + Len(blockLines(Head(bs), layout)))

declared(doc) == declaredFrom(doc.blocks, doc.layout, 1)

\* The lines of the recognized sections of a document, header to closing brace.
RECURSIVE sectionLinesFrom(_, _, _)
sectionLinesFrom(bs, layout, at) ==
    IF bs = <<>> THEN {}
    ELSE (IF Head(bs).key \in sectionNames
          THEN at..(at + Len(blockLines(Head(bs), layout)) - 1) ELSE {})
         \cup sectionLinesFrom(Tail(bs), layout, at + Len(blockLines(Head(bs), layout)))

sectionLines(doc) == sectionLinesFrom(doc.blocks, doc.layout, 1)

emitted == [i \in 1..Len(ret[1]) |->
               [name |-> ret[1][i].name, version |-> ret[1][i].version,
                line |-> ret[1][i].line]]

\* No declaration of a recognized section has a brace in its specifier / has
\* an empty specifier.
NoBraceInString(doc) ==
    \A i \in 1..Len(doc.blocks) : \A j \in 1..Len(doc.blocks[i].deps) :
        bracesIn(doc.blocks[i].deps[j].version, "{") = 0
NoEmptySpecifier(doc) ==
    \A i \in 1..Len(doc.blocks) : \A j \in 1..Len(doc.blocks[i].deps) :
        doc.blocks[i].deps[j].version # ""

\* C18 as stated: for every document with N declarations spread over the four
\* recognized sections, in any section order and with unrelated keys in
\* between, parseDependenciesFromText returns exactly N entries, each with the
\* declared name, the raw specifier and the 0-based index of its line.
C18_EveryDeclarationReturned ==
    ret # <<>> => emitted = declared(arg)

\* C18 as amended: the same for every document written with each section
\* header and its opening brace, each declaration and each closing brace on a
\* line of their own, with no empty specifier and no brace inside a string.
C18_EveryDeclarationReturnedPerLine ==
    (ret # <<>> /\ arg.layout = "perLine" /\ NoBraceInString(arg) /\ NoEmptySpecifier(arg))
        => /\ emitted = declared(arg)
           /\ \A i \in 1..Len(ret[1]) :
                 ret[1][i].packageQuery = ret[1][i].name \o "@" \o ret[1][i].version

\* C18 witness: three declarations found in devDependencies, then, after the
\* unrelated "scripts", in dependencies.
C18_Witness ==
    /\ ret # <<>>
    /\ arg.layout = "perLine"
    /\ Len(arg.blocks) = 3
    /\ arg.blocks[1].key = "devDependencies"
    /\ arg.blocks[2].key = "scripts"
    /\ arg.blocks[3].key = "dependencies"
    /\ Len(ret[1]) = 3
    /\ ret[1][3].line = 9
C20_WorkspaceSkipped ==
    ( /\ ret # <<>>
      /\ \E i \in 1..Len(arg.rawVersion) :
            /\ arg.rawVersion[i] = "workspace:"
            /\ \A j \in 1..(i - 1) : arg.rawVersion[j] = " " )
        => /\ ret[1].skip
           /\ DOMAIN ret[1] = {"skip"}

\* C20 witness: " workspace:*" skipped for a package the catalog has an entry
\* for.
C20_Witness ==
    /\ ret # <<>>
    /\ arg.rawVersion = <<" ", "workspace:", "*">>
    /\ arg.packageName \in DOMAIN arg.defaultCatalog
    /\ ret[1].skip
\* The pieces of the specifier that are not white space.
NotSpace(p) == p # " "
Solid(rawVersion) == SelectSeq(rawVersion, NotSpace)

\* C21: for a specifier catalog: whose remainder after the prefix is empty or
\* exactly ".", normalizeVersionForMonorepo returns skip = false with the
\* catalog's value for the package name as resolvedVersion and fromCatalog =
\* true whenever the catalog has an entry for that name, and skip = true
\* whenever it has none.
C21_CatalogDefaultResolved ==
    (ret # <<>> /\ Solid(arg.rawVersion) \in {<<"catalog:">>, <<"catalog:", ".">>})
        => IF arg.packageName \in DOMAIN arg.defaultCatalog
           THEN /\ DOMAIN ret[1] = {"skip", "resolvedVersion", "fromCatalog"}
                /\ ~ret[1].skip
                /\ ret[1].resolvedVersion = Str(arg.defaultCatalog[arg.packageName])
                /\ ret[1].fromCatalog
           ELSE /\ DOMAIN ret[1] = {"skip"}
                /\ ret[1].skip
\* C22: for a specifier catalog:<alias> whose alias is neither empty nor ".",
\* normalizeVersionForMonorepo returns skip = true, even when the default
\* catalog has an entry for the package name.
C22_NamedAliasSkipped ==
    (/\ ret # <<>>
     /\ Solid(arg.rawVersion) # <<>>
     /\ Head(Solid(arg.rawVersion)) = "catalog:"
     /\ Tail(Solid(arg.rawVersion)) \notin {<<>>, <<".">>})
        => ret[1] = [skip |-> TRUE]

C22_Witness ==
    /\ ret # <<>>
    /\ arg.rawVersion = <<"catalog:", "alias">>
    /\ arg.packageName \in DOMAIN arg.defaultCatalog
    /\ arg.defaultCatalog[arg.packageName] # <<>>
    /\ ret[1].skip

\* C23: for every specifier that after trimming starts with neither
\* workspace: nor catalog:, normalizeVersionForMonorepo returns skip = false
\* with the trimmed specifier as resolvedVersion, whatever the catalog
\* contains, and sets no fromCatalog.
C23_PlainSpecifierPassedThrough ==
    (/\ ret # <<>>
     /\ \/ Solid(arg.rawVersion) = <<>>
        \/ Head(Solid(arg.rawVersion)) \notin {"workspace:", "catalog:"})
        => /\ DOMAIN ret[1] = {"skip", "resolvedVersion"}
           /\ ~ret[1].skip
           /\ ret[1].resolvedVersion.t = "string"
           /\ LET r == ret[1].resolvedVersion.s IN
              /\ r # <<>> => (Head(r) # " " /\ r[Len(r)] # " ")
              /\ \E i, j \in 0..Len(arg.rawVersion) :
                    arg.rawVersion = Spaces(i) \o r \o Spaces(j)

C23_Witness ==
    /\ ret # <<>>
    /\ arg.rawVersion = <<" ", "^1.2.3", " ">>
    /\ arg.packageName \in DOMAIN arg.defaultCatalog
    /\ ret[1] = [skip |-> FALSE, resolvedVersion |-> Str(<<"^1.2.3">>)]
\* The string-valued entries of the i-th source of the manifest (1: catalog,
\* 2: pnpm.catalog, 3: pnpm.catalogs.default), none when it is no object.
entriesOf(i) ==
    IF arg.sources[i].t = "object"
    THEN {k \in DOMAIN arg.sources[i].o : arg.sources[i].o[k].t = "string"}
    ELSE {}

\* The last source that has a string-valued entry for k.
lastSource(k) == CHOOSE i \in 1..3 : k \in entriesOf(i) /\ \A j \in (i + 1)..3 : k \notin entriesOf(j)

\* C24: parseDefaultCatalogFromPackageJson merges catalog, then pnpm.catalog,
\* then pnpm.catalogs.default: the result has exactly the keys that have a
\* string value in some source, each with the value of the last source that
\* has one for it.
C24_ManifestSourcesMerged ==
    ret # <<>>
        => /\ DOMAIN ret[1] = entriesOf(1) \cup entriesOf(2) \cup entriesOf(3)
           /\ \A k \in DOMAIN ret[1] : ret[1][k] = arg.sources[lastSource(k)].o[k].s

C24_Witness ==
    /\ ret # <<>>
    /\ "@a/one" \in entriesOf(1) \cap entriesOf(3)
    /\ arg.sources[1].o["@a/one"] # arg.sources[3].o["@a/one"]
    /\ ret[1]["@a/one"] = arg.sources[3].o["@a/one"].s
    /\ arg.sources[2].t = "object"
    /\ "@b/two" \in DOMAIN arg.sources[2].o \ entriesOf(2)
    /\ "@b/two" \notin DOMAIN ret[1]
\* The catalog: lines of the file, the first of them, and the first line after
\* it that is not blank (comments apart) and is indented no deeper.
headers == {i \in 1..Len(arg.shape) : arg.shape[i].kind = "header"}
firstHeader == CHOOSE h \in headers : \A i \in headers : h <= i
blockEnders ==
    {i \in (firstHeader + 1)..Len(arg.shape) :
        /\ arg.shape[i].kind # "blank"
        /\ arg.shape[i].indent <= arg.shape[firstHeader].indent}
blockEnd ==
    IF blockEnders = {} THEN Len(arg.shape) + 1
    ELSE CHOOSE e \in blockEnders : \A i \in blockEnders : e <= i
blockEntries ==
    IF headers = {} THEN {}
    ELSE {i \in (firstHeader + 1)..(blockEnd - 1) : arg.shape[i].kind = "entry"}

\* C25: parseDefaultCatalogFromYaml returns exactly the entries written on the
\* non-blank lines that follow the first catalog: line up to the first
\* non-blank line indented at or below it, keys and values without their
\* quotes (the last line winning for a repeated key); a line after the end of
\* the block adds nothing.
C25_YamlBlockEntries ==
    ret # <<>>
        => /\ DOMAIN ret[1] = {<<arg.shape[i].key>> : i \in blockEntries}
           /\ \A i \in blockEntries :
                 (\A j \in blockEntries : j > i => arg.shape[j].key # arg.shape[i].key)
                    => ret[1][<<arg.shape[i].key>>] = <<arg.shape[i].value>>

C25_Witness ==
    /\ ret # <<>>
    /\ Len(arg.shape) = 4
    /\ arg.shape[1].kind = "header" /\ arg.shape[1].indent = 2
    /\ arg.shape[2].kind = "entry" /\ arg.shape[2].indent = 4
    /\ arg.shape[3].kind = "entry" /\ arg.shape[3].indent = 2
    /\ arg.shape[4].kind = "entry" /\ arg.shape[4].indent = 4
    /\ DOMAIN ret[1] = {<<"@a/one">>}
    /\ ret[1][<<"@a/one">>] = <<"^2.0.0">>
\* text is the figure nearest to num / den among those with one decimal
\* (either neighbour when num / den lies half way), followed by the unit.
OneDecimal(text, num, den, unit) ==
    \E whole \in 0..(num \div den + 1), tenth \in 0..9 :
        /\ text = ToString(whole) \o "." \o ToString(tenth) \o unit
        /\ 2 * (den * (10 * whole + tenth) - 10 * num) <= den
        /\ 2 * (10 * num - den * (10 * whole + tenth)) <= den

\* C27: formatBytes returns "n/e" for every negative or non-finite input, the
\* integer followed by B for 0 <= bytes < 1024, a one-decimal kB figure for
\* 1024 <= bytes < 1048576 and a one-decimal MB figure from 1048576 up, so
\* that 1024 gives "1.0kB" and 1048576 gives "1.0MB".
C27_FormatBytesRanges ==
    ret # <<>>
        => /\ (arg.t # "number" \/ arg.n < 0) => ret[1] = "n/e"
           /\ (arg.t = "number" /\ 0 <= arg.n /\ arg.n < 1024)
                 => ret[1] = ToString(arg.n) \o "B"
           /\ (arg.t = "number" /\ 1024 <= arg.n /\ arg.n < 1048576)
                 => OneDecimal(ret[1], arg.n, 1024, "kB")
           /\ (arg.t = "number" /\ 1048576 <= arg.n)
                 => OneDecimal(ret[1], arg.n, 1048576, "MB")
           /\ arg = Num(1024) => ret[1] = "1.0kB"
           /\ arg = Num(1048576) => ret[1] = "1.0MB"

C27_Witness ==
    /\ arg = Num(1048576 + 52429)
    /\ ret = <<"1.1MB">>
\* t is a semantic version: digits, a dot, digits, a dot, digits, and then
\* nothing or a hyphen and one or more letters, digits, dots and hyphens.
IsSemver(t) ==
    \E p1, p2, e \in 1..Len(t) :
        /\ 1 < p1 /\ p1 + 1 < p2 /\ p2 < e
        /\ t[p1] = "." /\ t[p2] = "."
        /\ \A k \in (1..(p1 - 1)) \cup ((p1 + 1)..(p2 - 1)) \cup ((p2 + 1)..e) : digit(t[k])
        /\ \/ e = Len(t)
           \/ /\ e + 1 < Len(t)
              /\ t[e + 1] = "-"
              /\ \A k \in (e + 2)..Len(t) : prerelease(t[k])

\* The semantic versions written in s, as <<first index, last index>>.
semversIn(s) ==
    {<<i, j>> \in (1..Len(s)) \X (1..Len(s)) : i <= j /\ IsSemver(SubSeq(s, i, j))}

\* r is s without the white space around it and without one leading ~ or ^.
RangeMarkRemoved(s, r) ==
    /\ r # <<>> => (Head(r) # " " /\ r[Len(r)] # " ")
    /\ \E i, j, k \in 0..Len(s) :
          \/ /\ s = Spaces(i) \o r \o Spaces(k)
             /\ r # <<>> => Head(r) \notin {"~", "^"}
          \/ \E mark \in {"~", "^"} : s = Spaces(i) \o <<mark>> \o Spaces(j) \o r \o Spaces(k)

\* C26: extractPinnedVersion(s) is the first semantic version written in s
\* (the one that starts first, as long as it can be) when there is one, and
\* otherwise s without one leading ~ or ^ and the white space around it.
C26_PinnedVersionExtracted ==
    ret # <<>>
        => IF semversIn(arg) # {}
           THEN \E m \in semversIn(arg) :
                    /\ ret[1] = SubSeq(arg, m[1], m[2])
                    /\ \A n \in semversIn(arg) :
                          m[1] < n[1] \/ (m[1] = n[1] /\ n[2] <= m[2])
           ELSE RangeMarkRemoved(arg, ret[1])

C26_Witness ==
    /\ arg = <<"^", "1", ".", "2", ".", "3", "-", "a", ".", "1">>
    /\ ret = <<SubSeq(arg, 2, 10)>>
\* C28: between the limiter's steps, a unit waits in the queue only while
\* every slot is taken: a non-empty queue means exactly limit units hold a
\* slot, because the step that releases a slot (after success or failure)
\* starts the head of the queue.
C28_NoWaitingWhileSlotFree ==
    \A g \in 1..Len(gates) :
        gates[g].queue # <<>>
            => /\ gates[g].activeCount = gates[g].limit
               /\ Cardinality(Holding(g)) = gates[g].limit

\* C28 witness: a unit waits while a failed unit and a succeeded unit have
\* released their slots, and a unit that had waited holds one of them.
C28_Witness ==
    /\ gates[1].queue # <<>>
    /\ gates[1].activeCount = gates[1].limit
    /\ \E u, v, w \in UnitIds :
        /\ units[u].st = "released" /\ units[u].outcome.t = "error"
        /\ units[v].st = "released" /\ units[v].outcome.t = "value"
        /\ w > gates[1].limit /\ w \in Holding(1)
\* The metadata requests handed to a limiter for key.
MetaRequests(key) == {u \in UnitIds : units[u].kind = "meta" /\ units[u].key = key}

\* C29: a getNpmLinks call made for a key while an earlier call for it is
\* waiting for the metadata fetch issues no request of its own: one metadata
\* request exists for the key, the call waits for the fetch of the call that
\* started it, and once both have returned they carry the same repository
\* link, or both none.
C29_ConcurrentLookupsShareOneFetch ==
    \A c \in CallIds :
        (calls[c].fn = "getNpmLinks" /\ calls[c].concurrentWith # {}) =>
            /\ ~calls[c].issuer
            /\ Cardinality(MetaRequests(calls[c].key)) = 1
            /\ \E d \in calls[c].concurrentWith :
                  calls[d].issuer /\ calls[d].awaiting = calls[c].awaiting
            /\ \A d \in calls[c].concurrentWith :
                  (calls[c].result # Pending /\ calls[d].result # Pending)
                     => /\ "githubUrl" \in DOMAIN calls[c].result
                        /\ "githubUrl" \in DOMAIN calls[d].result
                        /\ calls[c].result.githubUrl = calls[d].result.githubUrl

\* C29 witness: two lookups joined the fetch a first one had started, and all
\* three returned the repository link of the one response.
C29_Witness ==
    \E b, c \in CallIds :
        /\ b < c
        /\ calls[c].fn = "getNpmLinks"
        /\ b \in calls[c].concurrentWith
        /\ calls[b].concurrentWith # {}
        /\ calls[c].result # Pending
        /\ calls[c].result.githubUrl # Undefined
        /\ \A d \in calls[c].concurrentWith : calls[d].result = calls[c].result
\* The renders that have set their decorations.
Finished == {r \in 1..Len(renders) : renders[r].pc = "done"}

\* C30: the decorations shown are those of the most recently started render
\* among the renders that have set theirs: an older render never replaces what
\* a newer one has set, whatever order the lookups resolve in.
C30_OlderRenderNeverReplacesNewer ==
    \A r \in Finished :
        (\A q \in Finished : q <= r) => decorations.decos = renders[r].decos

\* ------------------------------------------------------------- C33
\* The line the scanner handles next, and the depth the running brace depth
\* takes on it.
lineAhead == docLines(arg)[ret[1].lineIndex + 1]
netBraces(lineText) == braceCount(lineText, "{") - braceCount(lineText, "}")
HasPair(lineText) ==
    \E i \in 1..Len(lineText) - 2 :
        /\ lineText[i][1] = "q" /\ lineText[i][2] # ""
        /\ lineText[i + 1] = P(":")
        /\ lineText[i + 2][1] = "q" /\ lineText[i + 2][2] # ""

\* C33: inside a tracked section, a line on which the running brace depth
\* drops to 0 or below closes the section, resets the depth to 0 and emits
\* no entry, a "name": "version" pair on it notwithstanding; a later
\* recognized header opens a section again, counting its own braces only;
\* and a line inside a section that is no "name": "version" line emits
\* nothing and leaves the section open.
C33_ClosingLineEndsSection ==
    [][LET st == ret[1]
           after == ret'[1]
           depth == st.braceDepth + netBraces(lineAhead)
       IN /\ (st.insideSection /\ depth <= 0) =>
                /\ ~after.insideSection
                /\ after.braceDepth = 0
                /\ after.items = st.items
          /\ (~st.insideSection /\ isSectionHeader(lineAhead) /\ netBraces(lineAhead) > 0) =>
                /\ after.insideSection
                /\ after.braceDepth = netBraces(lineAhead)
                /\ after.items = st.items
          /\ (st.insideSection /\ depth > 0 /\ depMatch(lineAhead) = <<>>) =>
                /\ after.insideSection
                /\ after.items = st.items]_vars

\* A line without a pair is skipped, the closing line carries the vue pair and
\* emits nothing, and the next header opens devDependencies at depth 1.
C33_Witness ==
    /\ arg.layout = "closeAfter"
    /\ Len(arg.blocks) = 2
    /\ arg.blocks[1].key = "dependencies" /\ Len(arg.blocks[1].deps) = 3
    /\ arg.blocks[2].key = "devDependencies"
    /\ HasPair(docLines(arg)[5]) /\ netBraces(docLines(arg)[5]) = -1
    /\ ret[1].lineIndex = 6
    /\ ret[1].insideSection /\ ret[1].braceDepth = 1
    /\ ret[1].items = <<item(<<"react", "18.3.1">>, 3)>>

\* ------------------------------------------------------------- C34
\* C34: a recognized section header whose own line has a net brace depth of 0
\* or less leaves the scanner outside any section and emits nothing, and
\* while the scanner is outside a section a line that is no recognized header
\* emits nothing and keeps it outside.
C34_ShallowHeaderStaysOutside ==
    [][LET st == ret[1]
           after == ret'[1]
       IN /\ (~st.insideSection /\ isSectionHeader(lineAhead) /\ netBraces(lineAhead) <= 0) =>
                /\ ~after.insideSection
                /\ after.items = st.items
          /\ (~st.insideSection /\ ~isSectionHeader(lineAhead)) =>
                /\ ~after.insideSection
                /\ after.items = st.items]_vars

\* The dependencies header opens and closes its braces on its own line, so its
\* react pair is not emitted; the devDependencies header below it is met with
\* net depth 1 and opens a section.
C34_Witness ==
    /\ arg.layout = "oneLine"
    /\ Len(arg.blocks) = 2
    /\ arg.blocks[1] = [key |-> "dependencies",
                        deps |-> <<[name |-> "react", version |-> "18.3.1"]>>]
    /\ arg.blocks[2].key = "devDependencies"
    /\ isSectionHeader(docLines(arg)[2]) /\ netBraces(docLines(arg)[2]) = 0
    /\ HasPair(docLines(arg)[2])
    /\ ret[1].lineIndex = 3
    /\ ret[1].insideSection /\ ret[1].braceDepth = 1
    /\ ret[1].items = <<>>

\* ------------------------------------------------------------- C35
\* C35: at every line boundary of a scan the scanner is inside a section only
\* if its brace depth is at least 1, and the entries emitted so far are in
\* strictly increasing line order, each on a line already scanned.
C35_ScanLoopInvariant ==
    LET st == ret[1]
    IN /\ st.insideSection => st.braceDepth >= 1
       /\ \A i, j \in 1..Len(st.items) : i < j => st.items[i].line < st.items[j].line
       /\ \A i \in 1..Len(st.items) : st.items[i].line < st.lineIndex

\* Two sections of two declarations each, scanned to the end: four entries.
C35_Witness ==
    /\ arg.layout = "perLine"
    /\ ret[1].lineIndex = Len(docLines(arg))
    /\ ~ret[1].insideSection
    /\ [i \in 1..Len(ret[1].items) |-> ret[1].items[i].line] = <<2, 3, 6, 7>>

\* ------------------------------------------------------------- C31
\* The entry of the document on a line, what its specifier resolves to, and
\* its query.
entryAt(line) == CHOOSE d \in {arg.deps[i] : i \in 1..Len(arg.deps)} : d.line = line
FirstWord(version) == IF Solid(version) = <<>> THEN "" ELSE Head(Solid(version))
IsPlain(d) == FirstWord(d.version) \notin {"", "workspace:", "catalog:"}
IsDefaultCatalogRef(d) ==
    FirstWord(d.version) = "catalog:" /\ Tail(Solid(d.version)) \in {<<>>, <<".">>}
IsListed(d) == d.name \in DOMAIN arg.defaultCatalog
resolvedOf(d) ==
    IF IsPlain(d) THEN Solid(d.version)
    ELSE IF IsListed(d) THEN arg.defaultCatalog[d.name] ELSE <<>>
queryOf(d) == <<d.name, "@">> \o resolvedOf(d)
Queried == {d \in {arg.deps[i] : i \in 1..Len(arg.deps)} :
               IsPlain(d) \/ (IsDefaultCatalogRef(d) /\ IsListed(d))}

\* C31: each decoration a render produces stands on the line of one entry of
\* the document and carries the size text cached for the query of that entry,
\* and the decorations follow the entries in their order, in whatever order
\* the size fetches completed.
C31_DecorationCarriesOwnResult ==
    ret[1].render.pc = "done" =>
        /\ \A k \in 1..Len(ret[1].decos) :
              LET deco == ret[1].decos[k]
              IN /\ \E i \in 1..Len(arg.deps) : arg.deps[i].line = deco.line
                 /\ entryAt(deco.line) \in Queried =>
                       /\ MapHas(ret[1].cache, queryOf(entryAt(deco.line)))
                       /\ deco.text = ret[1].cache[queryOf(entryAt(deco.line))].text
        /\ \A k, l \in 1..Len(ret[1].decos) :
              k < l => ret[1].decos[k].line < ret[1].decos[l].line

\* Two entries with different queries: the fetch of the second completed with
\* no sizes before that of the first completed with 1 kB, and each decoration
\* has its own.
C31_Witness ==
    /\ Len(arg.deps) = 2
    /\ arg.deps[1] = [name |-> "react", version |-> <<"^1.2.3">>, line |-> 2]
    /\ arg.deps[2] = [name |-> "@letsdeel/deel-it-global", version |-> <<" ", "catalog:", ".">>,
                      line |-> 3]
    /\ IsListed(arg.deps[2])
    /\ ret[1].render.pc = "done"
    /\ ret[1].render.arrivals = <<queryOf(arg.deps[2]), queryOf(arg.deps[1])>>
    /\ ret[1].decos = <<[line |-> 2, fromCatalog |-> FALSE, text |-> <<"1 kB (1 kB)">>],
                        [line |-> 3, fromCatalog |-> TRUE, text |-> <<"error">>]>>

\* ------------------------------------------------------------- C32
IsWorkspaceRef(d) == FirstWord(d.version) = "workspace:"
IsNamedAlias(d) == FirstWord(d.version) = "catalog:" /\ ~IsDefaultCatalogRef(d)

\* C32: every size request issued, by renderDecorations or by
\* provideInlayHints, is issued for an entry of the document that is no
\* workspace reference, no named catalog alias and no default-catalog
\* reference missing from the catalog, its query is the name of the entry,
\* "@" and the version the entry resolves to, and no entry is asked about
\* under two queries.
C32_OneQueryPerResolvedEntry ==
    /\ \A r \in ret[1].issued :
          /\ \E i \in 1..Len(arg.deps) : arg.deps[i].line = r.line
          /\ ~IsWorkspaceRef(entryAt(r.line))
          /\ ~IsNamedAlias(entryAt(r.line))
          /\ ~(IsDefaultCatalogRef(entryAt(r.line)) /\ ~IsListed(entryAt(r.line)))
          /\ r.query = queryOf(entryAt(r.line))
    /\ \A r, q \in ret[1].issued : r.line = q.line => r.query = q.query

\* ------------------------------------------------------------- C36
\* C36: a call of provideInlayHints puts in flight only queries the cache
\* does not have; when a fetch that such a call waits on completes, the
\* emitter is fired; and once a call has been made and every fetch has
\* completed, a further call on the same document starts no request, leaves
\* nothing in flight and registers no callback, so that no refresh follows it.
C36_HintRefreshTerminates ==
    [][LET st == ret[1]
           after == ret'[1]
       IN /\ after.hintCalls = st.hintCalls + 1 =>
                /\ \A q \in after.inFlight \ st.inFlight : ~MapHas(st.cache, q)
                /\ (st.hintCalls >= 1 /\ st.inFlight = {}) =>
                      /\ after.started = st.started
                      /\ after.inFlight = {}
                      /\ after.thens = EmptyMap
          /\ \A q \in st.inFlight \ after.inFlight :
                MapHas(st.thens, q) => after.fired >= 1]_vars
====
